---- MODULE Spec2Model ----
(***************************************************************************)
(* The combine-to-if/else lowering pass of the stencil dialect             *)
(* (lib/Dialect/Stencil/CombineToIfElsePass.cpp) as a state machine over   *)
(* the operation graph of one function.                                    *)
(*                                                                         *)
(* A value is a pair <<op, k>>: the k-th result (counted from 1; the code  *)
(* counts from 0) of operation op.  Op id 0 stands for the producers that  *)
(* are not part of the rewritten sub-graph (loads); they are never erased. *)
(* A temp type is [elem, shape]; a result type is its element type.        *)
(***************************************************************************)
EXTENDS Integers, Sequences, FiniteSets, TLC

VARIABLES
  ops,               \* the operation graph: op id -> operation
  pc,                \* runOnFunction: "start", "rewrite", "done", "crashed"
  failed,            \* signalPassFailure() has been called
  diags,             \* the diagnostics emitted so far
  last,              \* the last step of the pass: rule, root Combine, result
  prev,              \* the operation graph before the last step
  isStencilProgram,  \* StencilDialect::isStencilProgram(funcOp)
  internalOnly,      \* the pass option
  call               \* a verifier or accessor under check: inputs and result

vars == <<ops, pc, failed, diags, last, prev, isStencilProgram, internalOnly, call>>

----------------------------------------------------------------------------
(* Sequences *)

InSeq(x, s) == \E i \in 1..Len(s) : s[i] = x

IndexOf(x, s) == CHOOSE i \in 1..Len(s) : s[i] = x

Reverse(s) == [i \in 1..Len(s) |-> s[Len(s) + 1 - i]]

TakeFront(s, n) == SubSeq(s, 1, n)

TakeBack(s, n) == SubSeq(s, Len(s) - n + 1, Len(s))

Repeat(x, n) == [i \in 1..n |-> x]

RECURSIVE Concat(_)
Concat(ss) == IF ss = <<>> THEN <<>> ELSE Head(ss) \o Concat(Tail(ss))

RECURSIVE Product(_)
Product(s) == IF s = <<>> THEN 1 ELSE Head(s) * Product(Tail(s))

Iota(n) == [i \in 1..n |-> i]

SetMax(S) == CHOOSE x \in S : \A y \in S : y <= x

----------------------------------------------------------------------------
(* Operations, blocks and types *)

kIndexSize == 3

ExternalOp == 0

NoBound == <<>>

\* The block of an op that has no region.
NoBlock == [args |-> <<>>, items |-> <<>>, term |-> "none", tops |-> <<>>, unroll |-> <<>>]

TempType(elem, shape) == [elem |-> elem, shape |-> shape]

\* The type of the values produced outside of the rewritten sub-graph.
InputType == TempType("f64", <<>>)

\* stencil.apply: operands, optional bound pair, result types and one block
\* whose arguments mirror the operands.
ApplyOp(resTypes, operands, lb, ub, body) ==
  [kind |-> "apply", operands |-> operands, seg |-> <<>>, resTypes |-> resTypes,
   lb |-> lb, ub |-> ub, dim |-> 0, index |-> 0, body |-> body]

\* stencil.combine: the operand list is lower, upper, lowerext, upperext and
\* seg holds the four segment sizes (AttrSizedOperandSegments).
CombineOp(resTypes, dim, index, lower, upper, lowerext, upperext, lb, ub) ==
  [kind |-> "combine", operands |-> lower \o upper \o lowerext \o upperext,
   seg |-> <<Len(lower), Len(upper), Len(lowerext), Len(upperext)>>,
   resTypes |-> resTypes, lb |-> lb, ub |-> ub, dim |-> dim, index |-> index,
   body |-> NoBlock]

\* Any other user of a temp (stencil.store, stencil.buffer): one operand.
StoreOp(temp) ==
  [kind |-> "store", operands |-> <<temp>>, seg |-> <<>>, resTypes |-> <<>>,
   lb |-> NoBound, ub |-> NoBound, dim |-> 0, index |-> 0, body |-> NoBlock]

lower(c) == SubSeq(c.operands, 1, c.seg[1])

upper(c) == SubSeq(c.operands, c.seg[1] + 1, c.seg[1] + c.seg[2])

lowerext(c) == SubSeq(c.operands, c.seg[1] + c.seg[2] + 1, c.seg[1] + c.seg[2] + c.seg[3])

upperext(c) == SubSeq(c.operands, c.seg[1] + c.seg[2] + c.seg[3] + 1, Len(c.operands))

Results(g, o) == [k \in 1..Len(g[o].resTypes) |-> <<o, k>>]

getDefiningOp(v) == v[1]

TypeOf(g, v) ==
  IF v[1] = ExternalOp THEN InputType
  ELSE IF v[1] \in DOMAIN g /\ v[2] \in 1..Len(g[v[1]].resTypes) THEN g[v[1]].resTypes[v[2]]
  ELSE TempType("dangling", <<>>)

\* ValueRange::getTypes.
TypesOf(g, values) == [i \in 1..Len(values) |-> TypeOf(g, values[i])]

Combines(g) == {o \in DOMAIN g : g[o].kind = "combine"}

Applies(g) == {o \in DOMAIN g : g[o].kind = "apply"}

isApply(g, o) == o \in DOMAIN g /\ g[o].kind = "apply"

\* The id of the next operation created.
NextId(g) == SetMax(DOMAIN g \cup {0}) + 1

Insert(g, o, op) == [x \in DOMAIN g \cup {o} |-> IF x = o THEN op ELSE g[x]]

Remove(g, o) == [x \in DOMAIN g \ {o} |-> g[x]]

\* The operand slots that hold value v.
UseSlots(g, v) ==
  UNION {{<<o, i>> : i \in {j \in 1..Len(g[o].operands) : g[o].operands[j] = v}} : o \in DOMAIN g}

\* Value::use_empty negated: a weaker test than hasOneUse.
hasSomeUse(g, v) == UseSlots(g, v) # {}

hasOneUse(g, v) == Cardinality(UseSlots(g, v)) = 1

\* The operations that use a result of o.
Users(g, o) == {p \in DOMAIN g : \E i \in 1..Len(g[p].operands) : g[p].operands[i][1] = o}

use_empty(g, o) == Users(g, o) = {}

\* Value::replaceAllUsesWith for every result of o.
ReplaceAllUses(g, o, newValues) ==
  [x \in DOMAIN g |->
     [g[x] EXCEPT !.operands =
        [i \in 1..Len(g[x].operands) |->
           IF g[x].operands[i][1] = o THEN newValues[g[x].operands[i][2]]
           ELSE g[x].operands[i]]]]

\* PatternRewriter::replaceOp: redirect the uses, then erase.
replaceOp(g, o, newValues) == Remove(ReplaceAllUses(g, o, newValues), o)

\* PatternRewriter::eraseOp.
eraseOp(g, o) == Remove(g, o)

----------------------------------------------------------------------------
(* Shapes and the unroll configuration of a Return *)

hasShape(op) == op.lb # NoBound /\ op.ub # NoBound

Minus(a, b) == [i \in 1..Len(a) |-> a[i] - b[i]]

\* ReturnOp::getUnrollFac: the product of the unroll attribute, 1 without it.
getUnrollFac(unroll) == IF unroll = <<>> THEN 1 ELSE Product(unroll)

\* ReturnOp::getUnrollDim: the first axis whose entry is the unroll factor
\* (counted from 0); std::distance to end() when there is none.
getUnrollDim(unroll) ==
  IF unroll = <<>> THEN 0
  ELSE IF \E i \in 1..Len(unroll) : unroll[i] = getUnrollFac(unroll)
       THEN (CHOOSE i \in 1..Len(unroll) :
               /\ unroll[i] = getUnrollFac(unroll)
               /\ \A j \in 1..(i - 1) : unroll[j] # getUnrollFac(unroll)) - 1
       ELSE Len(unroll)

----------------------------------------------------------------------------
(* Blocks *)

\* A block item whose block-argument uses are renumbered: use j of a moved
\* computation now reads argument argValues[j] of the destination's Apply.
RECURSIVE RemapItems(_, _)
RemapItems(items, argValues) ==
  [i \in 1..Len(items) |->
     IF items[i].t = "compute"
       THEN [items[i] EXCEPT !.uses = [j \in 1..Len(items[i].uses) |-> argValues[items[i].uses[j]]]]
     ELSE IF items[i].t = "if"
       THEN [items[i] EXCEPT !.thenB.items = RemapItems(items[i].thenB.items, argValues),
                             !.elseB.items = RemapItems(items[i].elseB.items, argValues)]
     ELSE items[i]]

\* PatternRewriter::mergeBlocks: the operations of source are moved to the
\* end of dest and the source arguments are replaced by argValues.
mergeBlocks(source, destItems, argValues) == destItems \o RemapItems(source.items, argValues)

ElemTypes(tokens) == [i \in 1..Len(tokens) |-> tokens[i].elem]

----------------------------------------------------------------------------
(* CombineOp::getLowerDefiningOps / getUpperDefiningOps *)

\* The defining ops of the values, each kept once, in order of first use.
RECURSIVE definingOps(_, _)
definingOps(values, acc) ==
  IF values = <<>> THEN acc
  ELSE definingOps(Tail(values),
                   IF InSeq(getDefiningOp(Head(values)), acc) THEN acc
                   ELSE Append(acc, getDefiningOp(Head(values))))

getLowerDefiningOps(c) == definingOps(lowerext(c), definingOps(lower(c), <<>>))

getUpperDefiningOps(c) == definingOps(upperext(c), definingOps(upper(c), <<>>))

----------------------------------------------------------------------------
(* Outcomes of a rewrite rule.  res is what matchAndRewrite returns, or    *)
(* "crash" when the rule does not return (a failed assertion or cast).     *)

Success(g) == [res |-> "success", g |-> g, warn |-> "none"]

Failure(g, warn) == [res |-> "failure", g |-> g, warn |-> warn]

Crash(g) == [res |-> "crash", g |-> g, warn |-> "none"]

\* An operation erased while it has uses: eraseOp asserts use_empty() in a
\* build with assertions and leaves the uses dangling in one without.
EraseOutcomes(before, after, erased) ==
  IF \A o \in erased : use_empty(after, o) THEN {Success(after)}
  ELSE {Crash(before), Success(after)}

----------------------------------------------------------------------------
(* FuseRewrite *)

\* The shape check of fuseApplyOps.
FuseShapeMismatch(A, B) ==
  hasShape(A) /\ hasShape(B) /\ (A.lb # B.lb /\ A.ub # B.ub)

\* A comparison of the unroll factors alone.
UnrollFactorMismatch(unroll1, unroll2) == getUnrollFac(unroll1) # getUnrollFac(unroll2)

\* The unroll check of fuseApplyOps and lowerStencilCombine.
UnrollMismatch(unroll1, unroll2) ==
  \/ getUnrollFac(unroll1) # getUnrollFac(unroll2)
  \/ getUnrollDim(unroll1) # getUnrollDim(unroll2)

\* The block arguments of the fused Apply that replace the arguments of
\* the first and of the second Apply.
FuseArgs1(A, B) == TakeFront(Iota(Len(A.operands) + Len(B.operands)), Len(A.operands))

FuseArgs2(A, B) == TakeBack(Iota(Len(A.operands) + Len(B.operands)), Len(B.operands))

\* The Apply that fuseApplyOps creates, with both bodies merged and its Return.
FusedApply(g, A, B) ==
  ApplyOp(A.resTypes \o B.resTypes, A.operands \o B.operands, A.lb, A.ub,
          [args   |-> TypesOf(g, A.operands \o B.operands),
           items  |-> mergeBlocks(B.body, mergeBlocks(A.body, <<>>, FuseArgs1(A, B)), FuseArgs2(A, B)),
           term   |-> "return",
           tops   |-> A.body.tops \o B.body.tops,
           unroll |-> A.body.unroll])

\* The results of the fused Apply that replace the results of each Apply.
FuseResults1(n, A, B) ==
  TakeFront([k \in 1..(Len(A.resTypes) + Len(B.resTypes)) |-> <<n, k>>], Len(A.resTypes))

\* The first results instead of the last ones.
FuseResults2Front(n, A, B) ==
  TakeFront([k \in 1..(Len(A.resTypes) + Len(B.resTypes)) |-> <<n, k>>], Len(B.resTypes))

FuseResults2(n, A, B) ==
  TakeBack([k \in 1..(Len(A.resTypes) + Len(B.resTypes)) |-> <<n, k>>], Len(B.resTypes))

fuseApplyOps(g, a1, a2, c) ==
  IF FuseShapeMismatch(g[a1], g[a2])
    THEN {Failure(g, "expected shapes to match")}
  ELSE IF UnrollMismatch(g[a1].body.unroll, g[a2].body.unroll)
    THEN {Failure(g, "expected matching unroll configurations")}
  ELSE LET n  == NextId(g)
           g1 == Insert(g, n, FusedApply(g, g[a1], g[a2]))
           g2 == replaceOp(g1, a1, FuseResults1(n, g[a1], g[a2]))
           g3 == replaceOp(g2, a2, FuseResults2(n, g[a1], g[a2]))
       IN  {Success(g3)}

\* The defining ops FuseRewrite looks at: the upper ones, then the lower ones.
FuseDefiningOps(c) ==
  IF Len(getUpperDefiningOps(c)) > 1 THEN getUpperDefiningOps(c)
  ELSE IF Len(getLowerDefiningOps(c)) > 1 THEN getLowerDefiningOps(c)
  ELSE <<>>

FuseRewrite(g, c) ==
  LET definingOps2 == FuseDefiningOps(g[c])
  IN  IF definingOps2 = <<>> THEN {Failure(g, "none")}
      ELSE IF ~isApply(g, definingOps2[1]) \/ ~isApply(g, definingOps2[2]) THEN {Crash(g)}
      ELSE fuseApplyOps(g, definingOps2[1], definingOps2[2], c)

----------------------------------------------------------------------------
(* MirrorRewrite *)

\* The StoreResult without operand created for the j-th value of the range.
EmptyStore(n, j, v, g) == [src |-> "empty", origin |-> n, k |-> j, elem |-> TypeOf(g, v).elem]

\* The result types addEmptyStores appends: the element type of each value
\* of the range with the shape of the Apply.
EmptyResultTypes(g, A, range) ==
  [j \in 1..Len(range) |-> TempType(TypeOf(g, range[j]).elem, Minus(A.ub, A.lb))]

\* Each empty store appended once, whatever the unroll factor.
EmptyReturnOperandsOnce(g, A, range, n) ==
  [j \in 1..Len(range) |-> EmptyStore(n, j, range[j], g)]

\* The operands addEmptyStores appends to the Return: each empty store
\* getUnrollFac() times.
EmptyReturnOperands(g, A, range, n) ==
  Concat([j \in 1..Len(range) |-> Repeat(EmptyStore(n, j, range[j], g), getUnrollFac(A.body.unroll))])

\* The Apply (with id n) that addEmptyStores creates for applyOp.
addEmptyStores(g, A, range, n) ==
  ApplyOp(A.resTypes \o EmptyResultTypes(g, A, range), A.operands, A.lb, A.ub,
          [args   |-> TypesOf(g, A.operands),
           items  |-> mergeBlocks(A.body, <<>>, Iota(Len(A.operands)))
                        \o [j \in 1..Len(range) |-> [t |-> "store_result", tok |-> EmptyStore(n, j, range[j], g)]],
           term   |-> "return",
           tops   |-> A.body.tops \o EmptyReturnOperands(g, A, range, n),
           unroll |-> A.body.unroll])

\* appendOperandRange: the results of newOp at the result numbers the
\* values of the range have in oldOp.
appendOperandRange(newOp, range) == [i \in 1..Len(range) |-> <<newOp, range[i][2]>>]

\* The lower operands with the empty stores taken from the front of the
\* results of the new lower Apply.
MirrorLowerOperandsTakingFront(g, c, n1) ==
  appendOperandRange(n1, lower(c)) \o appendOperandRange(n1, lowerext(c))
    \o TakeFront(Results(g, n1), Len(upperext(c)))

\* The lower and the upper operand list of the Combine Mirror creates.
MirrorLowerOperands(g, c, n1) ==
  appendOperandRange(n1, lower(c)) \o appendOperandRange(n1, lowerext(c))
    \o TakeBack(Results(g, n1), Len(upperext(c)))

\* The upper operands with the upper extras ahead of the empty stores.
MirrorUpperOperandsExtrasFirst(g, c, n2) ==
  appendOperandRange(n2, upper(c)) \o appendOperandRange(n2, upperext(c))
    \o TakeBack(Results(g, n2), Len(lowerext(c)))

MirrorUpperOperands(g, c, n2) ==
  appendOperandRange(n2, upper(c)) \o TakeBack(Results(g, n2), Len(lowerext(c)))
    \o appendOperandRange(n2, upperext(c))

mirrorExtraResults(g, lo, up, c) ==
  IF lo = up THEN {Crash(g)}
  ELSE LET n1 == NextId(g)
           n2 == n1 + 1
           n3 == n1 + 2
           g1 == Insert(g, n1, addEmptyStores(g, g[lo], upperext(g[c]), n1))
           g2 == Insert(g1, n2, addEmptyStores(g, g[up], lowerext(g[c]), n2))
           g3 == Insert(g2, n3,
                        CombineOp(g[c].resTypes, g[c].dim, g[c].index,
                                  MirrorLowerOperands(g2, g[c], n1),
                                  MirrorUpperOperands(g2, g[c], n2),
                                  <<>>, <<>>, g[c].lb, g[c].ub))
           g4 == replaceOp(g3, c, Results(g3, n3))
           g5 == eraseOp(eraseOp(g4, lo), up)
       IN  EraseOutcomes(g, g5, {lo, up})

\* Mirror without the test for extra operands.
MirrorRewriteWithoutExtras(g, c) ==
  IF Len(getLowerDefiningOps(g[c])) # 1 \/ Len(getUpperDefiningOps(g[c])) # 1
    THEN {Failure(g, "none")}
  ELSE IF isApply(g, getLowerDefiningOps(g[c])[1]) /\ isApply(g, getUpperDefiningOps(g[c])[1])
    THEN mirrorExtraResults(g, getLowerDefiningOps(g[c])[1], getUpperDefiningOps(g[c])[1], c)
  ELSE {Failure(g, "none")}

MirrorRewrite(g, c) ==
  IF lowerext(g[c]) = <<>> /\ upperext(g[c]) = <<>> THEN {Failure(g, "none")}
  ELSE IF Len(getLowerDefiningOps(g[c])) # 1 \/ Len(getUpperDefiningOps(g[c])) # 1
    THEN {Failure(g, "none")}
  ELSE IF isApply(g, getLowerDefiningOps(g[c])[1]) /\ isApply(g, getUpperDefiningOps(g[c])[1])
    THEN mirrorExtraResults(g, getLowerDefiningOps(g[c])[1], getUpperDefiningOps(g[c])[1], c)
  ELSE {Failure(g, "none")}

----------------------------------------------------------------------------
(* IfElseRewrite *)

\* The leading Return operands, not permuted.
leadingReturnOpOperands(A, combineOpOperands) ==
  SubSeq(A.body.tops, 1, getUnrollFac(A.body.unroll) * Len(combineOpOperands))

\* permuteReturnOpOperands: for every Combine operand the unrollFac Return
\* operands of the Apply result it is.
permuteReturnOpOperands(A, combineOpOperands) ==
  Concat([i \in 1..Len(combineOpOperands) |->
            SubSeq(A.body.tops,
                   (combineOpOperands[i][2] - 1) * getUnrollFac(A.body.unroll) + 1,
                   (combineOpOperands[i][2] - 1) * getUnrollFac(A.body.unroll)
                     + getUnrollFac(A.body.unroll))])

\* The operands in the opposite order: upper first.
IfElseOperandsUpperFirst(L, U) == U.operands \o L.operands

IfElseOperands(L, U) == L.operands \o U.operands

\* index, constant and cmpi: the branch condition.
BranchCondition(c) ==
  << [t |-> "index", dim |-> c.dim, offset |-> Repeat(0, kIndexSize)],
     [t |-> "constant", value |-> c.index],
     [t |-> "cmpi", pred |-> "ult", lhs |-> "index", rhs |-> "constant"] >>

\* The Apply as created, before the bodies are moved into it.
IfElseNewApply(g, L, U, c) ==
  ApplyOp(c.resTypes, IfElseOperands(L, U), c.lb, c.ub,
          [args   |-> TypesOf(g, IfElseOperands(L, U)),
           items  |-> BranchCondition(c),
           term   |-> "none", tops |-> <<>>, unroll |-> <<>>])

\* The two assertions of lowerStencilCombine.
IfElseAsserts(L, U) ==
  /\ ElemTypes(L.body.tops) = ElemTypes(U.body.tops)
  /\ ElemTypes(L.body.tops) # <<>>

\* The block arguments of the new Apply that replace the arguments of the
\* lower and of the upper Apply.
IfElseLowerArgs(L, U) == TakeFront(Iota(Len(IfElseOperands(L, U))), Len(L.operands))

IfElseUpperArgs(L, U) == TakeFront(Iota(Len(IfElseOperands(L, U))), Len(U.operands))

\* The result types of the scf.if.
IfResultTypes(L, U) == ElemTypes(L.body.tops)

IfOp(L, U, c, lo, up) ==
  [t |-> "if", types |-> IfResultTypes(L, U), cond |-> "cmpi",
   thenB |-> [items |-> mergeBlocks(L.body, <<>>, IfElseLowerArgs(L, U)),
              term  |-> "yield",
              tops  |-> permuteReturnOpOperands(L, lower(c))],
   elseB |-> [items |-> mergeBlocks(U.body, <<>>, IfElseUpperArgs(L, U)),
              term  |-> "yield",
              tops  |-> permuteReturnOpOperands(U, upper(c))]]

\* The Apply once lowerStencilCombine is through with it.
IfElseApply(g, L, U, c, lo, up, n) ==
  [IfElseNewApply(g, L, U, c) EXCEPT
     !.body.items  = BranchCondition(c) \o <<IfOp(L, U, c, lo, up)>>,
     !.body.term   = "return",
     !.body.tops   = [i \in 1..Len(IfResultTypes(L, U)) |->
                        [src |-> "if", origin |-> n, k |-> i, elem |-> IfResultTypes(L, U)[i]]],
     !.body.unroll = L.body.unroll]

lowerStencilCombine(g, lo, up, c) ==
  LET n  == NextId(g)
      g1 == Insert(g, n, IfElseNewApply(g, g[lo], g[up], g[c]))
  IN  IF UnrollMismatch(g[lo].body.unroll, g[up].body.unroll)
        THEN {Failure(g1, "expected matching unroll configurations")}
      ELSE IF lo = up THEN {Crash(g)}
      ELSE LET g2 == Insert(g, n, IfElseApply(g, g[lo], g[up], g[c], lo, up, n))
               g3 == replaceOp(g2, c, Results(g2, n))
               g4 == eraseOp(eraseOp(g3, up), lo)
           IN  IF IfElseAsserts(g[lo], g[up]) THEN EraseOutcomes(g, g4, {lo, up})
               ELSE {Crash(g)} \cup EraseOutcomes(g, g4, {lo, up})

\* IfElse without the test for extra operands.
IfElseRewriteWithExtras(g, c) ==
  IF Len(getLowerDefiningOps(g[c])) # 1 \/ Len(getUpperDefiningOps(g[c])) # 1
    THEN {Failure(g, "none")}
  ELSE IF isApply(g, getLowerDefiningOps(g[c])[1]) /\ isApply(g, getUpperDefiningOps(g[c])[1])
    THEN lowerStencilCombine(g, getLowerDefiningOps(g[c])[1], getUpperDefiningOps(g[c])[1], c)
  ELSE {Failure(g, "none")}

IfElseRewrite(g, c) ==
  IF lowerext(g[c]) # <<>> \/ upperext(g[c]) # <<>> THEN {Failure(g, "none")}
  ELSE IF Len(getLowerDefiningOps(g[c])) # 1 \/ Len(getUpperDefiningOps(g[c])) # 1
    THEN {Failure(g, "none")}
  ELSE IF isApply(g, getLowerDefiningOps(g[c])[1]) /\ isApply(g, getUpperDefiningOps(g[c])[1])
    THEN lowerStencilCombine(g, getLowerDefiningOps(g[c])[1], getUpperDefiningOps(g[c])[1], c)
  ELSE {Failure(g, "none")}

\* CombineOp::getCombineTreeRoot: the Combine reached by following the
\* Combine users upwards.
RECURSIVE getCombineTreeRoot(_, _)
getCombineTreeRoot(g, c) ==
  IF \E u \in Users(g, c) : g[u].kind = "combine"
    THEN getCombineTreeRoot(g, CHOOSE u \in Users(g, c) : g[u].kind = "combine")
  ELSE c

InternalIfElseRewrite(g, c) ==
  IF \A u \in Users(g, getCombineTreeRoot(g, c)) : g[u].kind # "apply"
    THEN {Failure(g, "none")}
  ELSE IfElseRewrite(g, c)

----------------------------------------------------------------------------
(* The functions the pass is run on.                                       *)
(*                                                                         *)
(* A function is described by a record p: nL Applies feed the lower side   *)
(* of a Combine and nU Applies its upper side; lay[a] gives every result   *)
(* of Apply a its role:                                                    *)
(*   "P" a primary operand of the Combine (lower or upper),                *)
(*   "E" an extra operand of the Apply's own side,                         *)
(*   "X" an extra operand of the other side,                               *)
(*   "S" used by another operation (a store), "N" unused.                  *)
(* The Combine's results go to stores, to an Apply, to an outer Combine    *)
(* (cons) or nowhere.                                                      *)

MaxProducers == 2

MaxResults == 2

MaxOperands == 2

Roles == {"P", "E", "X", "S", "N"}

UnrollConfigs == {<<>>, <<1, 1, 2>>, <<1, 2, 1>>}

BaseBounds == [lb |-> <<0, 0, 0>>, ub |-> <<64, 64, 60>>]

AltBounds ==
  { [lb |-> <<0, 0, 1>>, ub |-> <<64, 64, 60>>],
    [lb |-> <<0, 0, 0>>, ub |-> <<64, 64, 59>>],
    [lb |-> <<0, 0, 1>>, ub |-> <<64, 64, 59>>],
    [lb |-> NoBound, ub |-> NoBound] }

NumApplies(p) == p.nL + p.nU

IsLowerApply(p, a) == a <= p.nL

AllResults(p) == Concat([a \in 1..NumApplies(p) |-> [i \in 1..Len(p.lay[a]) |-> <<a, i>>]])

Role(p, v) == p.lay[v[1]][v[2]]

LowerP(p) == SelectSeq(AllResults(p), LAMBDA v : IsLowerApply(p, v[1]) /\ Role(p, v) = "P")

UpperP(p) ==
  LET s == SelectSeq(AllResults(p), LAMBDA v : ~IsLowerApply(p, v[1]) /\ Role(p, v) = "P")
  IN  IF p.perm THEN Reverse(s) ELSE s

LowerExt(p) ==
  SelectSeq(AllResults(p), LAMBDA v : \/ IsLowerApply(p, v[1]) /\ Role(p, v) = "E"
                                      \/ ~IsLowerApply(p, v[1]) /\ Role(p, v) = "X")

UpperExt(p) ==
  SelectSeq(AllResults(p), LAMBDA v : \/ ~IsLowerApply(p, v[1]) /\ Role(p, v) = "E"
                                      \/ IsLowerApply(p, v[1]) /\ Role(p, v) = "X")

Stored(p) == SelectSeq(AllResults(p), LAMBDA v : Role(p, v) = "S")

\* Element types: the primary operands alternate f64, f32 by their place
\* in the Combine, lower extras are f32 and upper extras f64.
PElem(pos) == IF pos % 2 = 1 THEN "f64" ELSE "f32"

ElemOf(p, v) ==
  IF InSeq(v, LowerP(p)) THEN PElem(IndexOf(v, LowerP(p)))
  ELSE IF InSeq(v, UpperP(p)) THEN PElem(IndexOf(v, UpperP(p)))
  ELSE IF InSeq(v, LowerExt(p)) THEN "f32"
  ELSE IF InSeq(v, UpperExt(p)) THEN "f64"
  ELSE IF Role(p, v) = "S" THEN "f64"
  ELSE "f32"

ShapeOfBounds(b) == IF b.lb = NoBound THEN <<>> ELSE Minus(b.ub, b.lb)

\* An Apply as the earlier passes leave it: one computation that reads its
\* block arguments in order and a Return of unrollFac operands per result.
InitApply(p, a) ==
  ApplyOp([i \in 1..Len(p.lay[a]) |-> TempType(ElemOf(p, <<a, i>>), ShapeOfBounds(p.bounds[a]))],
          [j \in 1..p.nOps[a] |-> <<ExternalOp, 10 * a + j>>],
          p.bounds[a].lb, p.bounds[a].ub,
          [args   |-> Repeat(InputType, p.nOps[a]),
           items  |-> <<[t |-> "compute", origin |-> a, uses |-> Iota(p.nOps[a])]>>,
           term   |-> "return",
           tops   |-> [k \in 1..(getUnrollFac(p.unroll[a]) * Len(p.lay[a])) |->
                         [src |-> "store", origin |-> a, k |-> k,
                          elem |-> ElemOf(p, <<a, ((k - 1) \div getUnrollFac(p.unroll[a])) + 1>>)]],
           unroll |-> p.unroll[a]])

CombineOperandsOf(p) == LowerP(p) \o UpperP(p) \o LowerExt(p) \o UpperExt(p)

InitCombineTypes(p) ==
  LET res == LowerP(p) \o LowerExt(p) \o UpperExt(p)
  IN  [k \in 1..Len(res) |-> TempType(ElemOf(p, res[k]), ShapeOfBounds(BaseBounds))]

InitCombine(p) ==
  CombineOp(InitCombineTypes(p), 2, 30, LowerP(p), UpperP(p), LowerExt(p), UpperExt(p),
            BaseBounds.lb, BaseBounds.ub)

\* An Apply that uses the values, and the store of its result.
ConsumerApply(values, types, id) ==
  << ApplyOp(<<TempType("f64", ShapeOfBounds(BaseBounds))>>, values, BaseBounds.lb, BaseBounds.ub,
             [args   |-> types,
              items  |-> <<[t |-> "compute", origin |-> id, uses |-> Iota(Len(values))]>>,
              term   |-> "return",
              tops   |-> <<[src |-> "store", origin |-> id, k |-> 1, elem |-> "f64"]>>,
              unroll |-> <<>>]),
     StoreOp(<<id, 1>>) >>

\* The Apply that feeds the upper side of the outer Combine.
OuterUpperApply(p, id) ==
  ApplyOp(InitCombineTypes(p), <<<<ExternalOp, 10 * id + 1>>>>, BaseBounds.lb, BaseBounds.ub,
          [args   |-> <<InputType>>,
           items  |-> <<[t |-> "compute", origin |-> id, uses |-> <<1>>]>>,
           term   |-> "return",
           tops   |-> [k \in 1..(getUnrollFac(p.unroll[1]) * Len(InitCombineTypes(p))) |->
                         [src |-> "store", origin |-> id, k |-> k,
                          elem |-> InitCombineTypes(p)[((k - 1) \div getUnrollFac(p.unroll[1])) + 1].elem]],
           unroll |-> p.unroll[1]])

\* An Apply whose result is an extra operand of the lower side of the
\* outer Combine.
OuterExtraApply(p, id) ==
  ApplyOp(<<TempType("f32", ShapeOfBounds(BaseBounds))>>, <<<<ExternalOp, 10 * id + 1>>>>,
          BaseBounds.lb, BaseBounds.ub,
          [args   |-> <<InputType>>,
           items  |-> <<[t |-> "compute", origin |-> id, uses |-> <<1>>]>>,
           term   |-> "return",
           tops   |-> [k \in 1..getUnrollFac(p.unroll[1]) |->
                         [src |-> "store", origin |-> id, k |-> k, elem |-> "f32"]],
           unroll |-> p.unroll[1]])

\* The users of the results of Combine c, the first of them getting id.
Consumers(p, c, id) ==
  LET res == [k \in 1..Len(InitCombineTypes(p)) |-> <<c, k>>]
  IN  CASE p.cons = "none"  -> <<>>
        [] p.cons = "combine+apply/store" ->
             << OuterUpperApply(p, id),
                OuterExtraApply(p, id + 1),
                CombineOp(InitCombineTypes(p) \o <<TempType("f32", ShapeOfBounds(BaseBounds))>>,
                          2, 45, res, [k \in 1..Len(res) |-> <<id, k>>],
                          <<<<id + 1, 1>>>>, <<>>, BaseBounds.lb, BaseBounds.ub) >>
             \o [k \in 1..(Len(res) + 1) |-> StoreOp(<<id + 2, k>>)]
        [] p.cons = "store" -> [k \in 1..Len(res) |-> StoreOp(res[k])]
        [] p.cons = "apply" -> ConsumerApply(res, InitCombineTypes(p), id)
        [] p.cons \in {"combine/store", "combine/apply"} ->
             << OuterUpperApply(p, id),
                CombineOp(InitCombineTypes(p), 2, 45, res,
                          [k \in 1..Len(res) |-> <<id, k>>], <<>>, <<>>,
                          BaseBounds.lb, BaseBounds.ub) >>
             \o (IF p.cons = "combine/store"
                   THEN [k \in 1..Len(res) |-> StoreOp(<<id + 1, k>>)]
                   ELSE ConsumerApply([k \in 1..Len(res) |-> <<id + 1, k>>], InitCombineTypes(p), id + 2))

Build(p) ==
  LET applies == [a \in 1..NumApplies(p) |-> InitApply(p, a)]
      c       == NumApplies(p) + 1
      others  == [k \in 1..Len(Stored(p)) |-> StoreOp(Stored(p)[k])]
                   \o (IF p.dup THEN <<StoreOp(LowerP(p)[1])>> ELSE <<>>)
      first   == c + Len(others) + 1
  IN  applies \o <<InitCombine(p)>> \o others \o Consumers(p, c, first)

----------------------------------------------------------------------------
(* The set of functions explored *)

AtMostOneNonP(l) == Cardinality({i \in DOMAIN l : l[i] # "P"}) <= 1

\* The result roles of the first Apply of a side.
HeadLayouts ==
  UNION {{l \in [1..n -> Roles] : AtMostOneNonP(l) /\ \E i \in 1..n : l[i] \in {"P", "E", "X"}}
         : n \in 1..MaxResults}

\* The result roles of the further Applies of a side.
TailLayouts == {<<"P">>, <<"E">>}

CoreLayouts == {<<"P">>, <<"P", "E">>}

MkLay(nL, nU, hL, tL, hU, tU) ==
  <<hL>> \o Repeat(tL, nL - 1) \o <<hU>> \o Repeat(tU, nU - 1)

BaseParam(nL, nU, lay) ==
  [nL |-> nL, nU |-> nU, lay |-> lay, perm |-> FALSE,
   unroll |-> Repeat(<<>>, nL + nU), bounds |-> Repeat(BaseBounds, nL + nU),
   nOps |-> Repeat(1, nL + nU), dup |-> FALSE, cons |-> "store",
   stencil |-> TRUE, internal |-> FALSE]

\* A Combine has as many lower as upper operands, and at least one.
WellFormed(p) == Len(LowerP(p)) = Len(UpperP(p)) /\ Len(LowerP(p)) >= 1

HasExtras(p) == LowerExt(p) # <<>> \/ UpperExt(p) # <<>>

Topologies(heads) ==
  {p \in {BaseParam(nL, nU, MkLay(nL, nU, hL, tL, hU, tU)) :
            nL \in 1..MaxProducers, nU \in 1..MaxProducers,
            hL \in heads, hU \in heads, tL \in TailLayouts, tU \in TailLayouts}
     : WellFormed(p)}

CoreTopologies == Topologies(CoreLayouts)

TopoFamily ==
  Topologies(HeadLayouts)
    \cup {[p EXCEPT !.perm = TRUE] :
            p \in {q \in Topologies({<<"P">>, <<"P", "P">>}) : Len(UpperP(q)) >= 2}}

UnrollAssignments(n) ==
  {[a \in 1..n |-> IF a = d THEN alt ELSE base] :
     base \in UnrollConfigs, d \in 0..n, alt \in UnrollConfigs}

UnrollFamily ==
  UNION {{[p EXCEPT !.unroll = u] : u \in UnrollAssignments(NumApplies(p))} : p \in CoreTopologies}

BoundAssignments(n) ==
  {[a \in 1..n |-> IF a = d THEN alt ELSE BaseBounds] : d \in 1..n, alt \in AltBounds}
    \cup {Repeat([lb |-> NoBound, ub |-> NoBound], n)}

\* addEmptyStores reads the bounds of the Apply: Applies without bounds
\* are explored where no extra operand exists.
ShapeFamily ==
  {q \in UNION {{[p EXCEPT !.bounds = b] : b \in BoundAssignments(NumApplies(p))}
                : p \in CoreTopologies}
     : HasExtras(q) => \A a \in 1..NumApplies(q) : q.bounds[a].lb # NoBound}

OperandFamily ==
  UNION {{[p EXCEPT !.nOps = [a \in 1..NumApplies(p) |->
                                IF a = 1 THEN x ELSE IF a = p.nL + 1 THEN y ELSE 1]] :
             x \in 0..MaxOperands, y \in 0..MaxOperands}
         : p \in CoreTopologies}

PassFamily ==
  UNION {{[p EXCEPT !.dup = d, !.cons = k, !.stencil = st, !.internal = io] :
             d \in BOOLEAN, st \in BOOLEAN, io \in BOOLEAN,
             k \in {"none", "store", "apply", "combine/store", "combine/apply"}}
         : p \in CoreTopologies}

\* A Combine and an Apply feed the lower side of an outer Combine; an
\* inner Combine whose two Applies differ in their unroll attribute.
TreeFamily ==
  UNION {{[p EXCEPT !.cons = "combine+apply/store", !.internal = io] : io \in BOOLEAN}
         : p \in CoreTopologies}
    \cup {[p EXCEPT !.cons = "combine/store", !.unroll = <<<<1, 1, 2>>, <<>>>>] :
            p \in {q \in CoreTopologies : NumApplies(q) = 2 /\ ~HasExtras(q)}}

Programs ==
  TopoFamily \cup UnrollFamily \cup ShapeFamily \cup OperandFamily \cup PassFamily \cup TreeFamily

----------------------------------------------------------------------------
(* The pass *)

NoStep == [rule |-> "none", comb |-> 0, res |-> "none", warn |-> "none"]

\* The pass calls no verifier.
NoCall == [fn |-> "none"]

Init ==
  \E p \in Programs :
    /\ ops = Build(p)
    /\ prev = Build(p)
    /\ pc = "start"
    /\ failed = FALSE
    /\ diags = {}
    /\ last = NoStep
    /\ isStencilProgram = p.stencil
    /\ internalOnly = p.internal
    /\ call = NoCall

\* A walk that only looks for a Combine.
hasCombineOp(g) == Combines(g) # {}

\* The walk of runOnFunction over the operands of every Combine.
hasOperandsWithMultipleUses(g) ==
  \E c \in Combines(g) : \E i \in 1..Len(g[c].operands) : ~hasOneUse(g, g[c].operands[i])

ScanError ==
  [sev |-> "error", op |-> 0, msg |-> "execute domain splitting before combine op conversion"]

\* A pass that skips no function.
SkipsNoFunction(stencil) == FALSE

\* The functions runOnFunction returns from at once.
SkipsFunction(stencil) == ~stencil

\* runOnFunction up to the call of the greedy rewriter.
RunOnFunction ==
  /\ pc = "start"
  /\ ops' = ops
  /\ prev' = ops
  /\ IF SkipsFunction(isStencilProgram)
       THEN /\ pc' = "done"
            /\ failed' = failed
            /\ diags' = diags
            /\ last' = [rule |-> "scan", comb |-> 0, res |-> "skipped", warn |-> "none"]
     ELSE IF hasOperandsWithMultipleUses(ops)
       THEN /\ pc' = "done"
            /\ failed' = TRUE
            /\ diags' = diags \cup {ScanError}
            /\ last' = [rule |-> "scan", comb |-> 0, res |-> "failure", warn |-> "none"]
     ELSE /\ pc' = "rewrite"
          /\ failed' = failed
          /\ diags' = diags
          /\ last' = [rule |-> "scan", comb |-> 0, res |-> "success", warn |-> "none"]
  /\ UNCHANGED <<isStencilProgram, internalOnly, call>>

\* Every pattern, whatever the mode.
AllPatterns(internal) == {"InternalIfElse", "IfElse", "Mirror", "Fuse"}

\* The pattern list of runOnFunction.
Patterns(internal) == IF internal THEN {"InternalIfElse"} ELSE {"IfElse", "Mirror", "Fuse"}

Outcomes(rule, g, c) ==
  CASE rule = "Fuse"           -> FuseRewrite(g, c)
    [] rule = "Mirror"         -> MirrorRewrite(g, c)
    [] rule = "IfElse"         -> IfElseRewrite(g, c)
    [] rule = "InternalIfElse" -> InternalIfElseRewrite(g, c)

\* An Apply without uses is trivially dead (NoSideEffect): the greedy
\* rewriter erases it before it tries another pattern.
DeadApplies(g) == {a \in Applies(g) : use_empty(g, a)}

\* The greedy rewriter calls matchAndRewrite of a pattern on Combine c.
Step(rule, c) ==
  /\ pc = "rewrite"
  /\ rule \in Patterns(internalOnly)
  /\ DeadApplies(ops) = {}
  /\ \E o \in Outcomes(rule, ops, c) :
       /\ ops' = o.g
       /\ prev' = ops
       /\ last' = [rule |-> rule, comb |-> c, res |-> o.res, warn |-> o.warn]
       /\ pc' = IF o.res = "crash" THEN "crashed" ELSE pc
       /\ diags' = IF o.warn = "none" THEN diags
                   ELSE diags \cup {[sev |-> "warning", op |-> c, msg |-> o.warn]}
  /\ UNCHANGED <<failed, isStencilProgram, internalOnly, call>>

FuseStep == \E c \in Combines(ops) : Step("Fuse", c)

MirrorStep == \E c \in Combines(ops) : Step("Mirror", c)

IfElseStep == \E c \in Combines(ops) : Step("IfElse", c)

InternalIfElseStep == \E c \in Combines(ops) : Step("InternalIfElse", c)

EraseDeadOp ==
  /\ pc = "rewrite"
  /\ \E a \in DeadApplies(ops) :
       /\ ops' = eraseOp(ops, a)
       /\ last' = [rule |-> "erase", comb |-> a, res |-> "success", warn |-> "none"]
  /\ prev' = ops
  /\ UNCHANGED <<pc, failed, diags, isStencilProgram, internalOnly, call>>

\* The greedy rewriter returns when no pattern applies any more.
Finish ==
  /\ pc = "rewrite"
  /\ DeadApplies(ops) = {}
  /\ \A rule \in Patterns(internalOnly) : \A c \in Combines(ops) :
       \A o \in Outcomes(rule, ops, c) : o.res = "failure"
  /\ pc' = "done"
  /\ prev' = ops
  /\ last' = [rule |-> "finish", comb |-> 0, res |-> "success", warn |-> "none"]
  /\ UNCHANGED <<ops, failed, diags, isStencilProgram, internalOnly, call>>

Next ==
  \/ RunOnFunction
  \/ FuseStep
  \/ MirrorStep
  \/ IfElseStep
  \/ InternalIfElseStep
  \/ EraseDeadOp
  \/ Finish

Spec == Init /\ [][Next]_vars

----------------------------------------------------------------------------
(* The precondition scan *)

\* A Combine of g has an operand whose number of uses is not exactly one.
SomeOperandNotSingleUse(g) ==
  \E o \in DOMAIN g :
    /\ g[o].kind = "combine"
    /\ \E i \in 1..Len(g[o].operands) : Cardinality(UseSlots(g, g[o].operands[i])) # 1

\* C1: when the pass runs on a stencil program in which some Combine has
\* an operand whose number of uses is not exactly one, it emits the error,
\* signals pass failure and changes nothing: the scan is the last thing
\* that happened (no rewrite rule was applied), the pass is over and the
\* graph equals the graph before the pass.
C1_ScanAbortsWithoutMutation ==
  /\ (last.rule = "scan" /\ isStencilProgram /\ SomeOperandNotSingleUse(prev))
       => /\ failed
          /\ ScanError \in diags
  /\ failed => /\ last.rule = "scan"
               /\ pc = "done"
               /\ ops = prev

C1_Witness ==
  /\ pc = "done"
  /\ failed
  /\ ScanError \in diags
  /\ isStencilProgram
  /\ SomeOperandNotSingleUse(ops)
  /\ Cardinality(Applies(ops)) >= 2

----------------------------------------------------------------------------
(* The result of IfElse *)

\* The last step was a successful application of IfElse to a Combine.
IfElseSucceeded ==
  /\ last.rule \in {"IfElse", "InternalIfElse"}
  /\ last.res = "success"

\* The element types of the results of Combine c, each repeated as often
\* as the Return of Apply A unrolls.
ExpandedResultTypes(c, A) ==
  Concat([r \in 1..Len(c.resTypes) |-> Repeat(c.resTypes[r].elem, getUnrollFac(A.body.unroll))])

\* The conditionals in the body of Apply A.
Conditionals(A) == SelectSeq(A.body.items, LAMBDA it : it.t = "if")

\* C2: after IfElse succeeds on a Combine, the Combine and its two
\* producer Applies are gone, exactly one new Apply replaces them whose
\* results replace the results of the Combine one for one and with the
\* Combine's result types, its body holds a single conditional with two
\* branches, and the types each branch yields equal the result types of
\* the conditional and are, position by position, the result types of the
\* Combine expanded by the unroll factor.
C2_IfElsePostcondition ==
  IfElseSucceeded =>
    LET c  == last.comb
        lo == getLowerDefiningOps(prev[c])[1]
        up == getUpperDefiningOps(prev[c])[1]
        n  == NextId(prev)
    IN  /\ DOMAIN ops = (DOMAIN prev \ {c, lo, up}) \cup {n}
        /\ ops[n].kind = "apply"
        /\ ops[n].resTypes = prev[c].resTypes
        /\ \A o \in DOMAIN prev \ {c, lo, up} :
             ops[o] = [prev[o] EXCEPT !.operands =
                         [i \in 1..Len(prev[o].operands) |->
                            IF prev[o].operands[i][1] = c
                              THEN <<n, prev[o].operands[i][2]>>
                            ELSE prev[o].operands[i]]]
        /\ Len(Conditionals(ops[n])) = 1
        /\ LET if == Conditionals(ops[n])[1]
           IN  /\ ElemTypes(if.thenB.tops) = if.types
               /\ ElemTypes(if.elseB.tops) = if.types
               /\ if.types = ExpandedResultTypes(prev[c], ops[n])

\* The operations of a block, without the values they read.
RECURSIVE Computations(_)
Computations(items) ==
  [i \in 1..Len(items) |->
     IF items[i].t = "compute" THEN [t |-> "compute", origin |-> items[i].origin]
     ELSE IF items[i].t = "if"
       THEN [items[i] EXCEPT !.thenB.items = Computations(items[i].thenB.items),
                             !.elseB.items = Computations(items[i].elseB.items)]
     ELSE items[i]]

\* C3: the Apply built by IfElse has the bound pair of the Combine and the
\* operands of the lower Apply followed by those of the upper Apply; its
\* branch condition is (index along the Combine's dim at offset zero)
\* unsigned-less-than (the Combine's split index); the body of the lower
\* Apply is the then-branch and the body of the upper Apply the
\* else-branch.
C3_IfElseApplyShape ==
  IfElseSucceeded =>
    LET c  == prev[last.comb]
        L  == prev[getLowerDefiningOps(c)[1]]
        U  == prev[getUpperDefiningOps(c)[1]]
        A  == ops[NextId(prev)]
    IN  /\ A.lb = c.lb
        /\ A.ub = c.ub
        /\ A.operands = L.operands \o U.operands
        /\ Len(A.body.items) = 4
        /\ A.body.items[1] = [t |-> "index", dim |-> c.dim, offset |-> <<0, 0, 0>>]
        /\ A.body.items[2] = [t |-> "constant", value |-> c.index]
        /\ A.body.items[3] = [t |-> "cmpi", pred |-> "ult", lhs |-> "index", rhs |-> "constant"]
        /\ A.body.items[4].t = "if"
        /\ A.body.items[4].cond = "cmpi"
        /\ Computations(A.body.items[4].thenB.items) = Computations(L.body.items)
        /\ Computations(A.body.items[4].elseB.items) = Computations(U.body.items)

C3_Witness ==
  /\ IfElseSucceeded
  /\ LET c == prev[last.comb]
         L == prev[getLowerDefiningOps(c)[1]]
         U == prev[getUpperDefiningOps(c)[1]]
     IN  /\ Len(L.body.items) >= 2
         /\ Len(U.operands) >= 1
         /\ Len(L.operands) >= 2
         /\ Computations(L.body.items) # Computations(U.body.items)
         /\ c.lb # NoBound

----------------------------------------------------------------------------
(* The result of Fuse *)

FuseSucceeded == last.rule = "Fuse" /\ last.res = "success"

\* C4: fusing Apply A (k1 results) with Apply B (k2 results) that feed the
\* same side of a Combine yields exactly one new Apply with k1+k2 results
\* and the operands of A followed by those of B, whose Return operands are
\* those of A's Return followed by those of B's; every consumer of A's
\* i-th result now uses the i-th result of the new Apply, every consumer
\* of B's j-th result its (k1+j)-th result, and A and B are removed.
C4_FusePostcondition ==
  FuseSucceeded =>
    LET a  == FuseDefiningOps(prev[last.comb])[1]
        b  == FuseDefiningOps(prev[last.comb])[2]
        k1 == Len(prev[a].resTypes)
        n  == NextId(prev)
    IN  /\ DOMAIN ops = (DOMAIN prev \ {a, b}) \cup {n}
        /\ ops[n].kind = "apply"
        /\ ops[n].resTypes = prev[a].resTypes \o prev[b].resTypes
        /\ ops[n].operands = prev[a].operands \o prev[b].operands
        /\ ops[n].body.term = "return"
        /\ ops[n].body.tops = prev[a].body.tops \o prev[b].body.tops
        /\ \A o \in DOMAIN prev \ {a, b} :
             /\ Len(ops[o].operands) = Len(prev[o].operands)
             /\ \A i \in 1..Len(prev[o].operands) :
                  LET v == prev[o].operands[i]
                  IN  ops[o].operands[i] =
                        IF v[1] = a THEN <<n, v[2]>>
                        ELSE IF v[1] = b THEN <<n, k1 + v[2]>>
                        ELSE v
             /\ [ops[o] EXCEPT !.operands = <<>>] = [prev[o] EXCEPT !.operands = <<>>]

C4_Witness ==
  /\ FuseSucceeded
  /\ LET a == FuseDefiningOps(prev[last.comb])[1]
         b == FuseDefiningOps(prev[last.comb])[2]
     IN  /\ Len(prev[a].resTypes) + Len(prev[b].resTypes) >= 3
         /\ Len(prev[a].operands) # Len(prev[b].operands)
         /\ Len(prev[b].operands) >= 1
         /\ \E o \in DOMAIN prev : \E i \in 1..Len(prev[o].operands) :
              prev[o].operands[i][1] = b /\ ops[o].operands[i] # prev[o].operands[i]

----------------------------------------------------------------------------
(* The result of Mirror *)

MirrorSucceeded == last.rule = "Mirror" /\ last.res = "success"

\* The Return operands of Apply A that make up its result number r.
ReturnOperandsOf(A, r) ==
  SubSeq(A.body.tops, (r - 1) * getUnrollFac(A.body.unroll) + 1, r * getUnrollFac(A.body.unroll))

\* Value v of graph g is a result of Apply a that only empty stores write.
IsEmptyResultOf(g, v, a) ==
  /\ v[1] = a
  /\ ReturnOperandsOf(g[a], v[2]) # <<>>
  /\ \A i \in 1..Len(ReturnOperandsOf(g[a], v[2])) : ReturnOperandsOf(g[a], v[2])[i].src = "empty"

\* Value new of the graph after the step is, in the rebuilt Apply a, what
\* value old was in the graph before the step.
IsSameResultOf(new, a, old) ==
  /\ new[1] = a
  /\ ReturnOperandsOf(ops[a], new[2]) = ReturnOperandsOf(prev[old[1]], old[2])

\* C5: after Mirror succeeds on a Combine, the replacing Combine has no
\* lowerext and no upperext, the dim, split index, bound pair, result
\* count and result types of the old one, lower and upper operand lists
\* of length |lower|+|lowerext|+|upperext|, and its r-th result stands
\* for the value of the r-th result of the old Combine: a position of an
\* old lower/upper pair keeps both values, a position of an old lowerext
\* value pairs it with an empty store of the rebuilt upper Apply, and a
\* position of an old upperext value pairs it with an empty store of the
\* rebuilt lower Apply.
C5_MirrorPostcondition ==
  MirrorSucceeded =>
    LET c   == prev[last.comb]
        nlo == NextId(prev)
        nup == NextId(prev) + 1
        m   == NextId(prev) + 2
        nl  == Len(lower(c))
        ne  == Len(lowerext(c))
        nx  == Len(upperext(c))
    IN  /\ m \in DOMAIN ops
        /\ last.comb \notin DOMAIN ops
        /\ ops[m].kind = "combine"
        /\ lowerext(ops[m]) = <<>>
        /\ upperext(ops[m]) = <<>>
        /\ ops[m].dim = c.dim
        /\ ops[m].index = c.index
        /\ ops[m].lb = c.lb
        /\ ops[m].ub = c.ub
        /\ ops[m].resTypes = c.resTypes
        /\ Len(lower(ops[m])) = nl + ne + nx
        /\ Len(upper(ops[m])) = nl + ne + nx
        /\ \A o \in DOMAIN prev \cap DOMAIN ops : \A i \in 1..Len(prev[o].operands) :
             prev[o].operands[i][1] = last.comb
               => ops[o].operands[i] = <<m, prev[o].operands[i][2]>>
        /\ \A k \in 1..nl :
             /\ IsSameResultOf(lower(ops[m])[k], nlo, lower(c)[k])
             /\ IsSameResultOf(upper(ops[m])[k], nup, upper(c)[k])
        /\ \A j \in 1..ne :
             /\ IsSameResultOf(lower(ops[m])[nl + j], nlo, lowerext(c)[j])
             /\ IsEmptyResultOf(ops, upper(ops[m])[nl + j], nup)
        /\ \A j \in 1..nx :
             /\ IsEmptyResultOf(ops, lower(ops[m])[nl + ne + j], nlo)
             /\ IsSameResultOf(upper(ops[m])[nl + ne + j], nup, upperext(c)[j])

C5_Witness ==
  /\ MirrorSucceeded
  /\ lowerext(prev[last.comb]) # <<>>
  /\ upperext(prev[last.comb]) # <<>>
  /\ Len(lower(prev[last.comb])) >= 2
  /\ \E o \in DOMAIN ops : \E i \in 1..Len(ops[o].operands) :
       ops[o].operands[i] = <<NextId(prev) + 2, Len(prev[last.comb].resTypes)>>

\* Combine c of g has one Apply producing its lower and another Apply
\* producing its upper operands.
OneApplyPerSide(g, c) ==
  /\ \A k \in 1..Len(lower(g[c])) : lower(g[c])[k][1] = lower(g[c])[1][1]
  /\ \A k \in 1..Len(upper(g[c])) : upper(g[c])[k][1] = upper(g[c])[1][1]
  /\ isApply(g, lower(g[c])[1][1])
  /\ isApply(g, upper(g[c])[1][1])
  /\ lower(g[c])[1][1] # upper(g[c])[1][1]

\* Combine c of g has no lowerext, and an upperext all of whose values are
\* results of operation a.
UpperextSourcedFrom(g, c, a) ==
  /\ lowerext(g[c]) = <<>>
  /\ upperext(g[c]) # <<>>
  /\ \A j \in 1..Len(upperext(g[c])) : upperext(g[c])[j][1] = a

\* The empty stores in the body of Apply A.
EmptyStoresOf(A) == SelectSeq(A.body.items, LAMBDA it : it.t = "store_result")

\* Apply new is Apply old with one matching empty store for each value of
\* the range, each returned as often as the Return unrolls.
HasEmptyStoresFor(new, old, range) ==
  /\ Len(EmptyStoresOf(new)) = Len(EmptyStoresOf(old)) + Len(range)
  /\ Len(new.resTypes) = Len(old.resTypes) + Len(range)
  /\ Len(new.body.tops) = Len(old.body.tops) + getUnrollFac(old.body.unroll) * Len(range)
  /\ \A j \in 1..Len(range) :
       /\ new.resTypes[Len(old.resTypes) + j].elem = TypeOf(prev, range[j]).elem
       /\ \A i \in 1..getUnrollFac(old.body.unroll) :
            LET tok == ReturnOperandsOf(new, Len(old.resTypes) + j)[i]
            IN  tok.src = "empty" /\ tok.elem = TypeOf(prev, range[j]).elem

\* The Combine that Mirror created has no extras and as many results as
\* the Combine it replaces.
MirroredCombineIsClean ==
  LET m == NextId(prev) + 2
  IN  /\ m \in DOMAIN ops
      /\ ops[m].kind = "combine"
      /\ lowerext(ops[m]) = <<>>
      /\ upperext(ops[m]) = <<>>
      /\ Len(ops[m].resTypes) = Len(prev[last.comb].resTypes)

\* C6 (as stated): for a Combine with non-empty upperext sourced from the
\* lower Apply only (and empty lowerext), Mirror fires and inserts one
\* matching empty StoreResult per upperext value into the upper Apply,
\* producing a new Combine with empty extras and the same result count.
C6_MirrorUpperextFromLower ==
  (/\ last.rule = "Mirror"
   /\ OneApplyPerSide(prev, last.comb)
   /\ UpperextSourcedFrom(prev, last.comb, lower(prev[last.comb])[1][1]))
    => /\ last.res = "success"
       /\ MirroredCombineIsClean
       /\ HasEmptyStoresFor(ops[NextId(prev) + 1], prev[upper(prev[last.comb])[1][1]],
                            upperext(prev[last.comb]))

\* C6 (amended): for a Combine with non-empty upperext sourced from the
\* upper Apply only (and empty lowerext), Mirror does not return failure,
\* and when it returns success it has inserted one matching empty
\* StoreResult per upperext value into the lower Apply and none into the
\* upper Apply, producing a new Combine with empty extras and the same
\* result count.  When the upperext is sourced from the lower Apply, the
\* upper side has two defining ops and Mirror returns failure without
\* changing the graph.
C6_MirrorUpperextFromUpper ==
  /\ (/\ last.rule = "Mirror"
      /\ OneApplyPerSide(prev, last.comb)
      /\ UpperextSourcedFrom(prev, last.comb, upper(prev[last.comb])[1][1]))
       => /\ last.res # "failure"
          /\ last.res = "success" =>
               /\ MirroredCombineIsClean
               /\ HasEmptyStoresFor(ops[NextId(prev)], prev[lower(prev[last.comb])[1][1]],
                                    upperext(prev[last.comb]))
               /\ HasEmptyStoresFor(ops[NextId(prev) + 1], prev[upper(prev[last.comb])[1][1]], <<>>)
  /\ (/\ last.rule = "Mirror"
      /\ OneApplyPerSide(prev, last.comb)
      /\ UpperextSourcedFrom(prev, last.comb, lower(prev[last.comb])[1][1]))
       => /\ last.res = "failure"
          /\ ops = prev

C6_Witness ==
  /\ MirrorSucceeded
  /\ OneApplyPerSide(prev, last.comb)
  /\ UpperextSourcedFrom(prev, last.comb, upper(prev[last.comb])[1][1])
  /\ getUnrollFac(prev[lower(prev[last.comb])[1][1]].body.unroll) = 2
  /\ Len(EmptyStoresOf(ops[NextId(prev)])) = 1

----------------------------------------------------------------------------
(* Termination of the rewriting *)

RuleApplied == last.rule \in {"Fuse", "Mirror", "IfElse"}

\* The operations that define an operand of Combine c of g.
ProducersOf(g, c) == {g[c].operands[i][1] : i \in 1..Len(g[c].operands)}

\* Every operand of g is a result of an operation of g or an input.
NoDanglingOperand(g) ==
  \A o \in DOMAIN g : \A i \in 1..Len(g[o].operands) :
    \/ g[o].operands[i][1] = ExternalOp
    \/ /\ g[o].operands[i][1] \in DOMAIN g
       /\ g[o].operands[i][2] \in 1..Len(g[g[o].operands[i][1]].resTypes)

\* The producers of every Combine of g are Applies whose unroll
\* configurations and bound pairs match.
MatchingApplyProducers(g) ==
  /\ NoDanglingOperand(g)
  /\ \A c \in Combines(g) : \A a, b \in ProducersOf(g, c) :
       /\ isApply(g, a)
       /\ isApply(g, b)
       /\ ~UnrollMismatch(g[a].body.unroll, g[b].body.unroll)
       /\ g[a].lb = g[b].lb
       /\ g[a].ub = g[b].ub

\* The size of the problem: producers of either side, extra operands and
\* Combines.
ProblemSize(g) ==
  LET sizes == [c \in Combines(g) |->
                  Len(getLowerDefiningOps(g[c])) + Len(getUpperDefiningOps(g[c]))
                    + Len(lowerext(g[c])) + Len(upperext(g[c])) + 1]
      RECURSIVE Sum(_)
      Sum(S) == IF S = {} THEN 0 ELSE LET x == CHOOSE y \in S : TRUE IN sizes[x] + Sum(S \ {x})
  IN  Sum(Combines(g))

\* C7: from a stencil program that passes the scan and whose Combine
\* producers are Applies with matching unroll configurations and bound
\* pairs, every application of Fuse, Mirror or IfElse returns, a
\* successful one strictly decreases the problem size, a Fuse takes
\* exactly one producer off the side it works on, and the rewriting ends
\* in a graph without Combine.
C7_TerminatesAtCombineFreeFixpoint ==
  /\ (RuleApplied /\ MatchingApplyProducers(prev)) =>
       /\ last.res \in {"success", "failure"}
       /\ last.res = "success" => ProblemSize(ops) < ProblemSize(prev)
  /\ (FuseSucceeded /\ MatchingApplyProducers(prev)) =>
       LET n == NextId(prev)
       IN  \E c \in Combines(ops) :
             /\ n \in ProducersOf(ops, c)
             /\ Len(FuseDefiningOps(ops[c])) < Len(FuseDefiningOps(prev[c]))
             /\ \/ Len(getUpperDefiningOps(ops[c])) = Len(getUpperDefiningOps(prev[c])) - 1
                \/ Len(getLowerDefiningOps(ops[c])) = Len(getLowerDefiningOps(prev[c])) - 1
  /\ (last.rule = "finish" /\ ~internalOnly /\ MatchingApplyProducers(ops)) => Combines(ops) = {}

----------------------------------------------------------------------------
(* Consistency of the graph after a rule *)

\* C8: after every successful application of Fuse, Mirror or IfElse every
\* operand of every remaining operation refers to a result of an
\* operation still in the graph: an Apply that Mirror or IfElse erased
\* has no remaining consumer, also when one of its results is used by an
\* operation other than the rewritten Combine.
C8_NoDanglingOperandAfterRule ==
  (RuleApplied /\ last.res = "success" /\ NoDanglingOperand(prev)) => NoDanglingOperand(ops)

----------------------------------------------------------------------------
(* Rules that fail *)

\* C9: whenever Fuse, Mirror, IfElse or the internal IfElse variant
\* returns failure for a Combine, the graph is the graph before the
\* attempt: no operation was created, erased or modified, also when
\* IfElse fails on mismatched unroll configurations.
C9_FailureLeavesGraphUnchanged ==
  (last.rule \in {"Fuse", "Mirror", "IfElse", "InternalIfElse"} /\ last.res = "failure")
    => ops = prev

\* The two Applies that Fuse selects for the Combine of the last step.
FuseSelectsMismatchedUnroll ==
  /\ last.rule = "Fuse"
  /\ Len(FuseDefiningOps(prev[last.comb])) >= 2
  /\ isApply(prev, FuseDefiningOps(prev[last.comb])[1])
  /\ isApply(prev, FuseDefiningOps(prev[last.comb])[2])
  /\ LET u1 == prev[FuseDefiningOps(prev[last.comb])[1]].body.unroll
         u2 == prev[FuseDefiningOps(prev[last.comb])[2]].body.unroll
     IN  \/ getUnrollFac(u1) # getUnrollFac(u2)
         \/ getUnrollDim(u1) # getUnrollDim(u2)

\* C10: when the Returns of the two Applies selected by Fuse differ in
\* unroll factor or unroll axis, Fuse emits a warning on the Combine,
\* returns failure and leaves the graph unchanged.
C10_FuseUnrollMismatchFails ==
  FuseSelectsMismatchedUnroll =>
    /\ last.res = "failure"
    /\ last.warn \in {"expected matching unroll configurations", "expected shapes to match"}
    /\ [sev |-> "warning", op |-> last.comb, msg |-> last.warn] \in diags
    /\ ops = prev

C10_Witness ==
  /\ FuseSelectsMismatchedUnroll
  /\ last.warn = "expected matching unroll configurations"
  /\ LET u1 == prev[FuseDefiningOps(prev[last.comb])[1]].body.unroll
         u2 == prev[FuseDefiningOps(prev[last.comb])[2]].body.unroll
     IN  getUnrollFac(u1) = getUnrollFac(u2) /\ getUnrollFac(u1) = 2

----------------------------------------------------------------------------
(* The yields of IfElse *)

\* The operands of a yield are, for each Combine operand in turn, the u
\* Return operands of Apply A at the result number of that operand.
YieldsSelectedResults(yield, A, combineOpOperands) ==
  LET u == getUnrollFac(A.body.unroll)
  IN  /\ Len(yield) = u * Len(combineOpOperands)
      /\ \A k \in 1..Len(combineOpOperands) : \A i \in 1..u :
           yield[(k - 1) * u + i] = A.body.tops[(combineOpOperands[k][2] - 1) * u + i]

----------------------------------------------------------------------------
(* Failure of the pass *)

\* The last step was an attempt of a rewrite rule that returned failure.
RuleFailed ==
  /\ last.rule \in {"Fuse", "Mirror", "IfElse", "InternalIfElse"}
  /\ last.res = "failure"

\* C12: the pass signals failure if and only if the scan finds a Combine
\* operand without exactly one use.  Once the scan has passed, a rule
\* returning failure (mismatched unroll configurations or shapes, no
\* single producer) does not make the pass fail, and the driver goes on
\* with the other rules and Combines.
C12_OnlyTheScanFails ==
  /\ last.rule = "scan" => (failed <=> (isStencilProgram /\ SomeOperandNotSingleUse(prev)))
  /\ last.rule \notin {"scan", "none"} => ~failed
  /\ pc = "start" => ~failed
  /\ RuleFailed => /\ ~failed
                   /\ pc = "rewrite"
                   /\ \A d \in diags : d.sev = "warning"

C12_Witness ==
  /\ RuleFailed
  /\ ~failed
  /\ pc = "rewrite"
  /\ Cardinality(Combines(ops)) >= 2
  /\ \E c \in Combines(ops) : \E rule \in Patterns(internalOnly) \ {last.rule} :
       \E o \in Outcomes(rule, ops, c) : o.res = "success"

\* C13: on a function that is not tagged as a stencil program the pass
\* returns without signalling failure and leaves the graph unchanged,
\* even when the function has Combines with multi-use operands or Combines
\* on which a rule would fire.
C13_OtherFunctionsUntouched ==
  ~isStencilProgram =>
    /\ pc \in {"start", "done"}
    /\ ~failed
    /\ diags = {}
    /\ ops = prev
    /\ last.rule \in {"none", "scan"}
    /\ pc = "done" => last = [rule |-> "scan", comb |-> 0, res |-> "skipped", warn |-> "none"]

C13_Witness ==
  /\ ~isStencilProgram
  /\ pc = "done"
  /\ SomeOperandNotSingleUse(ops)
  /\ \E c \in Combines(ops) : \E rule \in Patterns(internalOnly) :
       \E o \in Outcomes(rule, ops, c) : o.res = "success"

----------------------------------------------------------------------------
(* The two modes of the driver *)

\* The Combines reached from the Combines S of g by going to Combine
\* users any number of times.
RECURSIVE CombineAncestors(_, _)
CombineAncestors(g, S) ==
  LET T == S \cup {u \in Combines(g) : \E s \in S : u \in Users(g, s)}
  IN  IF T = S THEN S ELSE CombineAncestors(g, T)

\* The root of the combine tree of Combine c of g has an Apply consumer.
RootHasApplyConsumer(g, c) ==
  \E r \in CombineAncestors(g, {c}) :
    /\ \A u \in Users(g, r) : g[u].kind # "combine"
    /\ \E u \in Users(g, r) : g[u].kind = "apply"

\* The conditions of IfElse on Combine c of g: no extras and one Apply
\* producer on either side.
IfElseConditions(g, c) ==
  /\ lowerext(g[c]) = <<>>
  /\ upperext(g[c]) = <<>>
  /\ \A v \in {g[c].operands[i] : i \in 1..g[c].seg[1]} :
       v[1] = g[c].operands[1][1] /\ isApply(g, v[1])
  /\ \A v \in {g[c].operands[i] : i \in (g[c].seg[1] + 1)..Len(g[c].operands)} :
       v[1] = g[c].operands[g[c].seg[1] + 1][1] /\ isApply(g, v[1])

\* C14: the two modes exclude each other.  In internal-only mode only the
\* root-aware IfElse variant is tried: Fuse and Mirror never fire, a
\* Combine is rewritten only if the root of its combine tree has an Apply
\* consumer and the conditions of IfElse hold, and every other Combine is
\* left as it is.  In general mode IfElse, Mirror and Fuse are tried and
\* the root-aware variant is not.
C14_DriverModes ==
  /\ internalOnly => last.rule \notin {"Fuse", "Mirror", "IfElse"}
  /\ ~internalOnly => last.rule # "InternalIfElse"
  /\ last.rule = "InternalIfElse" =>
       /\ last.res # "failure" =>
            /\ RootHasApplyConsumer(prev, last.comb)
            /\ IfElseConditions(prev, last.comb)
       /\ ~(RootHasApplyConsumer(prev, last.comb) /\ IfElseConditions(prev, last.comb)) =>
            /\ last.res = "failure"
            /\ ops = prev
       /\ \A c \in Combines(prev) \ {last.comb} :
            /\ c \in Combines(ops)
            /\ ops[c].seg = prev[c].seg
            /\ ops[c].resTypes = prev[c].resTypes
            /\ \A i \in 1..Len(prev[c].operands) :
                 prev[c].operands[i][1] # last.comb => ops[c].operands[i] = prev[c].operands[i]

C14_Witness ==
  /\ internalOnly
  /\ last.rule = "InternalIfElse"
  /\ last.res = "success"
  /\ \E c \in Combines(ops) : \E i \in 1..Len(ops[c].operands) :
       /\ ops[c].operands[i][1] = NextId(prev)
       /\ \E u \in Users(ops, c) : ops[u].kind = "apply"

----------------------------------------------------------------------------
(* The states of a Combine *)

\* 0 multi-producer, 1 single-producer-with-extras, 2 single-producer-clean,
\* 3 lowered.
CombineState(g, c) ==
  IF c \notin Combines(g) THEN 3
  ELSE IF Len(getLowerDefiningOps(g[c])) > 1 \/ Len(getUpperDefiningOps(g[c])) > 1 THEN 0
  ELSE IF lowerext(g[c]) # <<>> \/ upperext(g[c]) # <<>> THEN 1
  ELSE 2

\* The Combine that stands for Combine c of the graph before the last step.
Replacement(c) ==
  IF c = last.comb /\ MirrorSucceeded THEN NextId(prev) + 2 ELSE c

\* C15: a Combine only moves forward through multi-producer,
\* single-producer-with-extras, single-producer-clean and lowered.  In
\* multi-producer Mirror and IfElse fail, and a Fuse neither increases the
\* producers of a side nor changes the number of extras; Mirror goes from
\* single-producer-with-extras to single-producer-clean with one producer
\* on either side; IfElse goes from single-producer-clean to lowered and is
\* the only rule that removes a Combine; no application takes a Combine
\* or its replacement to an earlier state.
C15_CombineMovesForward ==
  last.rule \in {"Fuse", "Mirror", "IfElse", "InternalIfElse"} =>
    LET c == last.comb
    IN  /\ \A d \in Combines(prev) : CombineState(ops, Replacement(d)) >= CombineState(prev, d)
        /\ \A d \in Combines(prev) \ {c} : CombineState(ops, d) < 3
        /\ Combines(ops) \subseteq Combines(prev) \cup {Replacement(c)}
        /\ (CombineState(prev, c) = 0 /\ last.rule # "Fuse") => (last.res = "failure" /\ ops = prev)
        /\ last.res # "success" => CombineState(ops, c) = CombineState(prev, c)
        /\ FuseSucceeded =>
             /\ CombineState(prev, c) = 0
             /\ Len(getLowerDefiningOps(ops[c])) <= Len(getLowerDefiningOps(prev[c]))
             /\ Len(getUpperDefiningOps(ops[c])) <= Len(getUpperDefiningOps(prev[c]))
             /\ ops[c].seg = prev[c].seg
        /\ MirrorSucceeded =>
             /\ CombineState(prev, c) = 1
             /\ c \notin DOMAIN ops
             /\ CombineState(ops, Replacement(c)) = 2
             /\ Len(getLowerDefiningOps(ops[Replacement(c)])) = 1
             /\ Len(getUpperDefiningOps(ops[Replacement(c)])) = 1
        /\ IfElseSucceeded =>
             /\ CombineState(prev, c) = 2
             /\ CombineState(ops, c) = 3
        /\ CombineState(ops, Replacement(c)) = 3 => IfElseSucceeded

\* An IfElse on a Combine that Fuse and Mirror have worked on before.
C15_Witness ==
  /\ IfElseSucceeded
  /\ LET L == prev[getLowerDefiningOps(prev[last.comb])[1]]
         U == prev[getUpperDefiningOps(prev[last.comb])[1]]
     IN  /\ Len(SelectSeq(L.body.items, LAMBDA it : it.t = "compute")) >= 2
         /\ EmptyStoresOf(L) # <<>> \/ EmptyStoresOf(U) # <<>>

----------------------------------------------------------------------------
(* The extent algebra and the verifiers of StencilOps.td                   *)
(*                                                                         *)
(* A bound pair is [lb, ub], two index vectors of kIndexSize entries.  A   *)
(* verifier or accessor is checked by a specification of its own: Init     *)
(* draws the inputs into call, an action applies the function and stores   *)
(* its result in call.out.  The variables of the pass stay idle.           *)

passVars == <<ops, pc, failed, diags, last, prev, isStencilProgram, internalOnly>>

PassIdle ==
  /\ ops = <<>>
  /\ prev = <<>>
  /\ pc = "idle"
  /\ failed = FALSE
  /\ diags = {}
  /\ last = NoStep
  /\ isStencilProgram = FALSE
  /\ internalOnly = FALSE

\* The largest coordinate of a bound.
MaxCoord == 1

Indexes == [1..kIndexSize -> 0..MaxCoord]

BoundPairs == {p \in [lb : Indexes, ub : Indexes] : \A i \in 1..kIndexSize : p.lb[i] <= p.ub[i]}

min(x, y) == IF x < y THEN x ELSE y

max(x, y) == IF x > y THEN x ELSE y

\* applyFunElementWise(x, y, min)
ElementWiseMin(x, y) == [i \in 1..Len(x) |-> min(x[i], y[i])]

\* applyFunElementWise(x, y, max)
ElementWiseMax(x, y) == [i \in 1..Len(x) |-> max(x[i], y[i])]

\* The pointwise union of two bound pairs.
union(a, b) == [lb |-> ElementWiseMin(a.lb, b.lb), ub |-> ElementWiseMax(a.ub, b.ub)]

\* Bound pair a covers bound pair b.
hasLargerOrEqualShape(a, b) ==
  \A i \in 1..Len(a.lb) : a.lb[i] <= b.lb[i] /\ a.ub[i] >= b.ub[i]

\* The test of the Cast verifier on the lower bounds only.
fitsUserLB(lb, ub, userLB, userUB) == lb = ElementWiseMin(lb, userLB)

\* The test the Cast verifier applies to a user with a shape: the negation
\* of the condition of its error.
fitsUser(lb, ub, userLB, userUB) ==
  ~(lb # ElementWiseMin(lb, userLB) \/ ub # ElementWiseMax(ub, userUB))

InitShape ==
  /\ PassIdle
  /\ \E a \in BoundPairs, b \in BoundPairs :
       call = [fn |-> "input", a |-> a, b |-> b, out |-> "none"]

UnionCall ==
  /\ call.fn = "input"
  /\ call' = [call EXCEPT !.fn = "union", !.out = union(call.a, call.b)]
  /\ UNCHANGED passVars

HasLargerOrEqualShapeCall ==
  /\ call.fn = "input"
  /\ call' = [call EXCEPT !.fn = "hasLargerOrEqualShape",
                          !.out = hasLargerOrEqualShape(call.a, call.b)]
  /\ UNCHANGED passVars

FitsUserCall ==
  /\ call.fn = "input"
  /\ call' = [call EXCEPT !.fn = "fitsUser",
                          !.out = fitsUser(call.a.lb, call.a.ub, call.b.lb, call.b.ub)]
  /\ UNCHANGED passVars

NextShape ==
  \/ UnionCall
  \/ HasLargerOrEqualShapeCall
  \/ FitsUserCall

SpecShape == InitShape /\ [][NextShape]_vars

\* C16: the union of two bound pairs of equal rank is the pointwise
\* minimum of the lower and the pointwise maximum of the upper bounds and
\* does not depend on the order of the pairs; hasLargerOrEqualShape is
\* reflexive and transitive; and the test of the Cast verifier on a user
\* holds exactly when the Cast's pair is larger or equal, which is exactly
\* when the union of the two pairs is the Cast's pair.
C16_ExtentAlgebra ==
  LET a == call.a
      b == call.b
  IN  /\ call.fn = "union" =>
           /\ \A i \in 1..kIndexSize :
                /\ call.out.lb[i] \in {a.lb[i], b.lb[i]}
                /\ call.out.lb[i] <= a.lb[i] /\ call.out.lb[i] <= b.lb[i]
                /\ call.out.ub[i] \in {a.ub[i], b.ub[i]}
                /\ call.out.ub[i] >= a.ub[i] /\ call.out.ub[i] >= b.ub[i]
           /\ call.out = union(b, a)
      /\ call.fn = "hasLargerOrEqualShape" =>
           /\ a = b => call.out
           /\ call.out => \A c \in BoundPairs :
                hasLargerOrEqualShape(b, c) => hasLargerOrEqualShape(a, c)
      /\ call.fn = "fitsUser" =>
           /\ call.out <=> hasLargerOrEqualShape(a, b)
           /\ call.out <=> (union(a, b) = a)

\* The Cast verifier accepts a user whose pair is strictly inside the
\* Cast's pair on one axis and equal on the others.
C16_Witness ==
  /\ call.fn = "fitsUser"
  /\ call.out
  /\ call.a # call.b
  /\ \E i \in 1..kIndexSize : call.a.lb[i] = call.b.lb[i] /\ call.a.ub[i] > call.b.ub[i]

----------------------------------------------------------------------------
(* The Cast verifier *)

\* The largest number of users of a value besides the verified op.
MaxUsers == 2

\* The error of the first failing check of the field and result types, in
\* the order of the verifier.
CastTypeErrors ==
  {"none",
   "expected field to have dynamic shape",
   "expected result to have static shape",
   "expected the field and result types to have the same allocation",
   "the field and result types have different element types",
   "expected op and the field and result types to have the same rank",
   "expected op and result type to have the same shape"}

\* A user of the result of a Cast: an op with the ShapeOp interface, with
\* or without bounds, or any other op.
CastUsers ==
  {[shapeOp |-> TRUE, lb |-> p.lb, ub |-> p.ub] : p \in BoundPairs}
    \cup {[shapeOp |-> TRUE, lb |-> NoBound, ub |-> NoBound],
          [shapeOp |-> FALSE, lb |-> NoBound, ub |-> NoBound]}

UserLists == UNION {[1..n -> CastUsers] : n \in 0..MaxUsers}

\* Only the first user is tested.
firstUserFits(castOp, users) ==
  users # <<>> /\ users[1].shapeOp /\ hasShape(users[1]) =>
    fitsUser(castOp.lb, castOp.ub, users[1].lb, users[1].ub)

\* The loop of the Cast verifier over the users of the result.
allUsersFit(castOp, users) ==
  \A k \in 1..Len(users) :
    users[k].shapeOp /\ hasShape(users[k]) =>
      fitsUser(castOp.lb, castOp.ub, users[k].lb, users[k].ub)

\* The verifier of stencil.cast.
verifyCastOp(typeError, castOp, users) ==
  IF typeError # "none" THEN typeError
  ELSE IF ~allUsersFit(castOp, users) THEN "shape not large enough to fit all accesses"
  ELSE "success"

InitCast ==
  /\ PassIdle
  /\ \E e \in CastTypeErrors, p \in BoundPairs, us \in UserLists :
       call = [fn |-> "input", typeError |-> e, op |-> p, users |-> us, out |-> "none"]

VerifyCast ==
  /\ call.fn = "input"
  /\ call' = [call EXCEPT !.fn = "verify",
                          !.out = verifyCastOp(call.typeError, call.op, call.users)]
  /\ UNCHANGED passVars

NextCast == VerifyCast

SpecCast == InitCast /\ [][NextCast]_vars

\* The users of a Cast that have a bound pair.
ShapedUsers(users) == SelectSeq(users, LAMBDA u : u.shapeOp /\ u.lb # NoBound /\ u.ub # NoBound)

\* The pointwise union of a non-empty list of bound pairs.
RECURSIVE UnionOfAll(_)
UnionOfAll(s) == IF Len(s) = 1 THEN [lb |-> s[1].lb, ub |-> s[1].ub]
                 ELSE union([lb |-> s[1].lb, ub |-> s[1].ub], UnionOfAll(Tail(s)))

\* Some user with a bound pair asks for more than the Cast declares.
SomeUserExceeds(castOp, users) ==
  \E k \in 1..Len(ShapedUsers(users)) : \E i \in 1..kIndexSize :
    \/ ShapedUsers(users)[k].lb[i] < castOp.lb[i]
    \/ ShapedUsers(users)[k].ub[i] > castOp.ub[i]

\* C17: the verification of a Cast fails when a user of its result with a
\* bound pair asks for a lower bound below the Cast's or an upper bound
\* above the Cast's on some axis, and passes the check of the users
\* otherwise; the user by user check accepts exactly the Casts whose bound
\* pair is larger or equal to the union of the bound pairs of these users;
\* users without a bound pair have no influence.
C17_CastCoversUsers ==
  call.fn = "verify" =>
    /\ SomeUserExceeds(call.op, call.users) => call.out # "success"
    /\ ~SomeUserExceeds(call.op, call.users) => call.out = call.typeError \/ call.out = "success"
    /\ (call.typeError = "none" /\ ~SomeUserExceeds(call.op, call.users)) => call.out = "success"
    /\ call.typeError = "none" =>
         (call.out = "success" <=>
            \/ ShapedUsers(call.users) = <<>>
            \/ hasLargerOrEqualShape(call.op, UnionOfAll(ShapedUsers(call.users))))

\* A Cast passes with two users whose bound pairs differ and whose union is
\* neither of the two pairs.
C17_Witness ==
  /\ call.fn = "verify"
  /\ call.typeError = "none"
  /\ Len(call.users) = 2
  /\ Len(ShapedUsers(call.users)) = 2
  /\ call.users[1] # call.users[2]
  /\ UnionOfAll(ShapedUsers(call.users)) \notin {[lb |-> call.users[k].lb, ub |-> call.users[k].ub] : k \in 1..2}
  /\ call.out = "success"

----------------------------------------------------------------------------
(* The Store verifier *)

\* The error of the first failing check of the field and temp types and of
\* the shape, in the order of the verifier.
StoreTypeErrors ==
  {"none",
   "expected fields to have static shape",
   "the field and temp types have different rank",
   "the field and temp types have different allocation",
   "the field and temp types have different element types",
   "expected the field type to be larger than the op shape",
   "expected the temp type to be larger than the op shape"}

\* The op a value is the result of; "none" for a block argument.
DefiningOps == {"apply", "combine", "load", "cast", "none"}

\* The users of the field besides the verified Store.
OtherUsers == UNION {[1..n -> {"load", "store", "other"}] : n \in 0..MaxUsers}

\* field().getUsers(): the verified Store and the other users.
getUsers(others) == <<"store">> \o others

\* llvm::count_if over the users with isa_and_nonnull<kind>.
count_if(users, kind) == Len(SelectSeq(users, LAMBDA u : u = kind))

\* dyn_cast and isa on the null pointer: the assertion of a debug build,
\* a read through the null pointer otherwise.
NullDefiningOp == {"assertion failed", "invalid read"}

\* The count of the Store users is only tested for being positive.
someStore(users) == count_if(users, "store") >= 1

\* The test of the verifier on the Store users of the field.
oneStore(users) == ~(count_if(users, "store") # 1)

\* The verifier of stencil.store: the set of its possible results.
verifyStoreOp(typeError, tempDef, fieldDef, others) ==
  IF typeError # "none" THEN {typeError}
  ELSE IF tempDef = "none" THEN NullDefiningOp
  ELSE IF ~(tempDef = "apply" \/ tempDef = "combine")
    THEN {"output temp not result of an apply or a combine op"}
  ELSE IF count_if(getUsers(others), "load") # 0 THEN {"an output cannot be an input"}
  ELSE IF ~oneStore(getUsers(others)) THEN {"multiple stores to the same output"}
  ELSE IF fieldDef = "none" THEN NullDefiningOp
  ELSE IF fieldDef # "cast"
    THEN {"expected the defining op of the field is a cast operation"}
  ELSE {"success"}

InitStore ==
  /\ PassIdle
  /\ \E e \in StoreTypeErrors, t \in DefiningOps \ {"cast"}, f \in DefiningOps \ {"combine", "load"},
        us \in OtherUsers :
       call = [fn |-> "input", typeError |-> e, tempDef |-> t, fieldDef |-> f,
               others |-> us, out |-> "none"]

VerifyStore ==
  /\ call.fn = "input"
  /\ \E r \in verifyStoreOp(call.typeError, call.tempDef, call.fieldDef, call.others) :
       call' = [call EXCEPT !.fn = "verify", !.out = r]
  /\ UNCHANGED passVars

NextStore == VerifyStore

SpecStore == InitStore /\ [][NextStore]_vars

\* C18: the verification of a Store succeeds only if no Load uses the
\* target field, the verified Store is the only Store that uses it, a Cast
\* produces the field and an Apply or a Combine produces the stored temp.
\* So no field of a verified graph is both loaded and stored, and every
\* stored field has one writer.
C18_StoreSingleWriter ==
  (call.fn = "verify" /\ call.out = "success") =>
    /\ \A k \in 1..Len(call.others) : call.others[k] \notin {"load", "store"}
    /\ call.fieldDef = "cast"
    /\ call.tempDef \in {"apply", "combine"}
    /\ call.typeError = "none"

\* A Store passes on a field that two other ops use.
C18_Witness ==
  /\ call.fn = "verify"
  /\ call.out = "success"
  /\ Len(call.others) = 2
  /\ call.tempDef = "combine"

----------------------------------------------------------------------------
(* The Return verifier *)

\* Numbers beyond the range of the model checker's integers are lists of
\* digits to the base 256, lowest digit first, without leading zeros.
RECURSIVE ToDigits(_)
ToDigits(n) == IF n = 0 THEN <<>> ELSE <<n % 256>> \o ToDigits(n \div 256)

RECURSIVE ToNat(_)
ToNat(d) == IF d = <<>> THEN 0 ELSE d[1] + 256 * ToNat(Tail(d))

\* d * x + carry for a digit list d and numbers x, carry below 2^23.
RECURSIVE Times(_, _, _)
Times(d, x, carry) ==
  IF d = <<>> THEN ToDigits(carry)
  ELSE <<(d[1] * x + carry) % 256>> \o Times(Tail(d), x, (d[1] * x + carry) \div 256)

RECURSIVE Normalize(_)
Normalize(d) ==
  IF d = <<>> THEN <<>>
  ELSE IF d[Len(d)] = 0 THEN Normalize(SubSeq(d, 1, Len(d) - 1))
  ELSE d

\* The conversion of a number to a 32 bit integer keeps four digits.
ToInt32(d) == Normalize(SubSeq(d, 1, IF Len(d) < 4 THEN Len(d) ELSE 4))

\* std::accumulate(first, last, init, std::multiplies<int64_t>()) with an
\* init of type int: every product is converted back to int.
RECURSIVE accumulate(_, _)
accumulate(s, init) ==
  IF s = <<>> THEN init
  ELSE accumulate(Tail(s), ToInt32(Normalize(Times(init, Head(s), 0))))

\* The product of the entries without any conversion.
RECURSIVE accumulateExact(_, _)
accumulateExact(s, init) ==
  IF s = <<>> THEN init
  ELSE accumulateExact(Tail(s), Normalize(Times(init, Head(s), 0)))

\* unsigned unrollFac = getUnrollFac(), as a digit list.
unrollFac(unroll) == IF unroll = <<>> THEN ToDigits(1) ELSE accumulate(unroll, ToDigits(1))

\* The largest number of operands of a Return.
MaxReturnOperands == 4

ElementTypes == {"f32", "f64"}

\* The unroll attributes of a Return: absent, or three 64 bit entries.
ReturnUnrolls ==
  {<<>>, <<1, 1, 1>>, <<1, 2, 1>>, <<2, 2, 1>>, <<0, 1, 1>>,
   <<65536, 65536, 1>>, <<641, 6700417, 1>>}

\* The verifier of stencil.return; results are the element types of the
\* results of the parent Apply, operands the result types of the operands.
verifyReturnOp(unroll, results, operands) ==
  IF ToDigits(Len(operands)) # Normalize(Times(unrollFac(unroll), Len(results), 0))
    THEN "the operand and apply result counts do not match"
  ELSE IF \E i \in 0..(Len(results) - 1) : \E j \in 0..(ToNat(unrollFac(unroll)) - 1) :
            operands[i * ToNat(unrollFac(unroll)) + j + 1] # results[i + 1]
    THEN "the operand and apply result element types do not match"
  ELSE "success"

InitReturn ==
  /\ PassIdle
  /\ \E u \in ReturnUnrolls,
        rs \in UNION {[1..n -> ElementTypes] : n \in 0..MaxResults},
        os \in UNION {[1..n -> ElementTypes] : n \in 0..MaxReturnOperands} :
       call = [fn |-> "input", unroll |-> u, results |-> rs, operands |-> os, out |-> "none"]

VerifyReturn ==
  /\ call.fn = "input"
  /\ call' = [call EXCEPT !.fn = "verify",
                          !.out = verifyReturnOp(call.unroll, call.results, call.operands)]
  /\ UNCHANGED passVars

NextReturn == VerifyReturn

SpecReturn == InitReturn /\ [][NextReturn]_vars

\* The product of the entries of the unroll attribute, 1 without it.
UnrollProduct(unroll) == IF unroll = <<>> THEN ToDigits(1) ELSE accumulateExact(unroll, ToDigits(1))

\* The operand count is the product times the result count, and the
\* operands of every group have the element type of their result.
OperandsMatchResults(unroll, results, operands) ==
  /\ ToDigits(Len(operands)) = Normalize(Times(UnrollProduct(unroll), Len(results), 0))
  /\ \A i \in 0..(Len(results) - 1) : \A j \in 0..(ToNat(UnrollProduct(unroll)) - 1) :
       operands[i * ToNat(UnrollProduct(unroll)) + j + 1] = results[i + 1]

\* C19: the verification of a Return succeeds if and only if the number
\* of its operands is the unroll factor times the number of results of the
\* enclosing Apply, the unroll factor being the product of the entries of
\* the unroll attribute and 1 without the attribute, and the operands
\* i * factor .. i * factor + factor - 1 have the element type of result i.
C19_ReturnVerifies ==
  call.fn = "verify" =>
    (call.out = "success" <=> OperandsMatchResults(call.unroll, call.results, call.operands))

\* The same for the unroll attributes whose product is below 2^32.
C19_ReturnVerifiesWithoutOverflow ==
  (call.fn = "verify" /\ Len(UnrollProduct(call.unroll)) <= 4) =>
    (call.out = "success" <=> OperandsMatchResults(call.unroll, call.results, call.operands))

----------------------------------------------------------------------------
(* The result and operand numbers of a Combine                             *)
(*                                                                         *)
(* Numbers count from 0 as in the code; an Optional<unsigned> is the empty *)
(* sequence for llvm::None and a sequence of one number otherwise.         *)

None == <<>>

Some(n) == <<n>>

getNumOperands(c) == Len(c.operands)

getLowerOperandNumber(c, resultNumber) ==
  IF resultNumber < Len(lower(c)) THEN Some(resultNumber) ELSE None

\* getLowerExtraOperandNumber without the test against lower().size().
getLowerExtraOperandNumberFromZero(c, resultNumber) ==
  IF resultNumber < Len(lower(c)) + Len(lowerext(c))
    THEN Some(resultNumber - Len(lower(c)))
  ELSE None

getLowerExtraOperandNumber(c, resultNumber) ==
  IF resultNumber >= Len(lower(c)) /\ resultNumber < Len(lower(c)) + Len(lowerext(c))
    THEN Some(resultNumber - Len(lower(c)))
  ELSE None

getUpperExtraOperandNumber(c, resultNumber) ==
  IF /\ resultNumber >= Len(lower(c)) + Len(lowerext(c))
     /\ resultNumber < Len(lower(c)) + Len(lowerext(c)) + Len(upperext(c))
    THEN Some(resultNumber - Len(lower(c)) - Len(lowerext(c)))
  ELSE None

isLowerOperand(c, operandNumber) ==
  \/ operandNumber < Len(lower(c))
  \/ /\ operandNumber >= Len(lower(c)) + Len(upper(c))
     /\ operandNumber < Len(lower(c)) + Len(upper(c)) + Len(lowerext(c))

isUpperOperand(c, operandNumber) ==
  ~isLowerOperand(c, operandNumber) /\ operandNumber < getNumOperands(c)

\* A Combine with n lower and n upper operands, le lower and ue upper extra
\* operands, all of them results of ops outside of the model.
NumberedCombine(n, le, ue) ==
  CombineOp([k \in 1..(n + le + ue) |-> TempType("f64", <<>>)], 2, 30,
            [k \in 1..n |-> <<ExternalOp, k>>],
            [k \in 1..n |-> <<ExternalOp, n + k>>],
            [k \in 1..le |-> <<ExternalOp, 2 * n + k>>],
            [k \in 1..ue |-> <<ExternalOp, 2 * n + le + k>>],
            NoBound, NoBound)

InitNumbers ==
  /\ PassIdle
  /\ \E n \in 0..MaxResults, le \in 0..MaxResults, ue \in 0..MaxResults,
        number \in 0..(4 * MaxResults + 1) :
       call = [fn |-> "input", op |-> NumberedCombine(n, le, ue), number |-> number,
               out |-> "none"]

ResultNumberCall ==
  /\ call.fn = "input"
  /\ call' = [call EXCEPT !.fn = "result",
                !.out = [lower    |-> getLowerOperandNumber(call.op, call.number),
                         lowerext |-> getLowerExtraOperandNumber(call.op, call.number),
                         upperext |-> getUpperExtraOperandNumber(call.op, call.number)]]
  /\ UNCHANGED passVars

OperandNumberCall ==
  /\ call.fn = "input"
  /\ call' = [call EXCEPT !.fn = "operand",
                !.out = [isLower |-> isLowerOperand(call.op, call.number),
                         isUpper |-> isUpperOperand(call.op, call.number)]]
  /\ UNCHANGED passVars

NextNumbers ==
  \/ ResultNumberCall
  \/ OperandNumberCall

SpecNumbers == InitNumbers /\ [][NextNumbers]_vars

\* C20: for a Combine with as many lower as upper operands, every result
\* number below |lower| + |lowerext| + |upperext| gets a number from
\* exactly one of getLowerOperandNumber, getLowerExtraOperandNumber and
\* getUpperExtraOperandNumber, the other two return none, and the number
\* is an index into that group (results in the order primary, lowerext,
\* upperext); every operand number below the number of operands satisfies
\* exactly one of isLowerOperand and isUpperOperand, any other number
\* neither.
C20_CombineNumbering ==
  LET c == call.op
      r == call.number
      L == c.seg[1]
      LE == c.seg[3]
      UE == c.seg[4]
  IN  /\ (call.fn = "result" /\ r < L + LE + UE) =>
           /\ c.seg[1] = c.seg[2]
           /\ Len(c.resTypes) = L + LE + UE
           /\ Cardinality({f \in {"lower", "lowerext", "upperext"} : call.out[f] # <<>>}) = 1
           /\ call.out.lower # <<>> => (r < L /\ call.out.lower = <<r>>)
           /\ call.out.lowerext # <<>> =>
                (call.out.lowerext[1] \in 0..(LE - 1) /\ call.out.lowerext[1] = r - L)
           /\ call.out.upperext # <<>> =>
                (call.out.upperext[1] \in 0..(UE - 1) /\ call.out.upperext[1] = r - L - LE)
      /\ (call.fn = "operand" /\ r < c.seg[1] + c.seg[2] + c.seg[3] + c.seg[4]) =>
           (call.out.isLower # call.out.isUpper)
      /\ (call.fn = "operand" /\ r >= c.seg[1] + c.seg[2] + c.seg[3] + c.seg[4]) =>
           (~call.out.isLower /\ ~call.out.isUpper)

\* The last result of a Combine with operands in all four groups is numbered
\* as an upper extra.
C20_Witness ==
  /\ call.fn = "result"
  /\ \A k \in 1..4 : call.op.seg[k] >= 1
  /\ call.number = Len(call.op.resTypes) - 1
  /\ call.out.upperext = <<call.op.seg[4] - 1>>

----------------------------------------------------------------------------
(* The inputs of the branches *)

\* The operations of the body of Apply A, every use of a block argument
\* replaced by the operand the argument is bound to.
BoundBody(A, items) == RemapItems(items, A.operands)

\* The scf.if of the Apply that IfElse has created.
CreatedIf == ops[NextId(prev)].body.items[Len(ops[NextId(prev)].body.items)]

\* C21: after IfElse each branch reads the inputs its Apply read before:
\* the uses of the i-th block argument of the lower Apply are uses of the
\* i-th block argument of the new Apply, those of the i-th block argument of
\* the upper Apply are uses of argument |lower operands| + i, and these
\* arguments are bound to the operands of the lower and of the upper Apply.
C21_BranchesKeepTheirInputs ==
  IfElseSucceeded =>
    LET c == prev[last.comb]
        L == prev[getLowerDefiningOps(c)[1]]
        U == prev[getUpperDefiningOps(c)[1]]
        N == ops[NextId(prev)]
    IN  /\ N.operands = L.operands \o U.operands
        /\ BoundBody(N, CreatedIf.thenB.items) = BoundBody(L, L.body.items)
        /\ BoundBody(N, CreatedIf.elseB.items) = BoundBody(U, U.body.items)

\* The same for a lower Apply without operands.
C21_BranchesKeepTheirInputsWithoutLowerOperands ==
  (IfElseSucceeded /\ prev[getLowerDefiningOps(prev[last.comb])[1]].operands = <<>>) =>
    LET c == prev[last.comb]
        L == prev[getLowerDefiningOps(c)[1]]
        U == prev[getUpperDefiningOps(c)[1]]
        N == ops[NextId(prev)]
    IN  /\ BoundBody(N, CreatedIf.thenB.items) = BoundBody(L, L.body.items)
        /\ BoundBody(N, CreatedIf.elseB.items) = BoundBody(U, U.body.items)

----------------------------------------------------------------------------
(* The verification rules of the created Applies *)

\* The rules of the Apply and of the Return verifier on Apply a of graph g:
\* one block argument of the operand's type per operand, unroll factor many
\* Return operands per result, each of the element type of its result.
AppliesVerify(g, a) ==
  LET A == g[a]
      u == getUnrollFac(A.body.unroll)
  IN  /\ Len(A.body.args) = Len(A.operands)
      /\ \A j \in 1..Len(A.operands) : A.body.args[j] = TypeOf(g, A.operands[j])
      /\ A.body.term = "return"
      /\ Len(A.body.tops) = u * Len(A.resTypes)
      /\ \A i \in 1..Len(A.resTypes) : \A j \in 1..u :
           (i - 1) * u + j <= Len(A.body.tops) =>
             A.body.tops[(i - 1) * u + j].elem = A.resTypes[i].elem

\* The Applies the last step has created.
CreatedApplies == {a \in Applies(ops) : a \notin DOMAIN prev}

\* C22: a successful Fuse, Mirror or IfElse on a graph whose Applies pass
\* the Apply and Return verification creates Applies that pass it: as many
\* block arguments as operands, of their types, and unroll factor times
\* result count many Return operands.
C22_CreatedAppliesVerify ==
  (/\ last.rule \in {"Fuse", "Mirror", "IfElse", "InternalIfElse"}
   /\ last.res = "success"
   /\ \A a \in Applies(prev) : AppliesVerify(prev, a))
    => \A a \in CreatedApplies : AppliesVerify(ops, a)

\* The same for Fuse and Mirror only.
C22_FuseAndMirrorAppliesVerify ==
  (/\ last.rule \in {"Fuse", "Mirror"}
   /\ last.res = "success"
   /\ \A a \in Applies(prev) : AppliesVerify(prev, a))
    => \A a \in CreatedApplies : AppliesVerify(ops, a)

----------------------------------------------------------------------------
(* The assertions of IfElse *)

\* IfElse has gone past its match conditions and the unroll comparison on
\* a graph whose Applies pass the verification.
IfElseFiredOnVerifiedGraph ==
  /\ last.rule \in {"IfElse", "InternalIfElse"}
  /\ last.res # "failure"
  /\ \A a \in Applies(prev) : AppliesVerify(prev, a)

\* C23: when IfElse fires on a Combine of a verified graph whose producer
\* Applies have matching unroll configurations, the operand types of the
\* lower Return equal those of the upper Return element for element and
\* there is at least one, whatever the order in which the Combine consumes
\* the results and whatever the result counts of the two Applies.
C23_IfElseAssertionsHold ==
  IfElseFiredOnVerifiedGraph =>
    LET c == prev[last.comb]
        L == prev[getLowerDefiningOps(c)[1]]
        U == prev[getUpperDefiningOps(c)[1]]
    IN  /\ Len(L.body.tops) = Len(U.body.tops)
        /\ \A k \in 1..Len(L.body.tops) :
             k <= Len(U.body.tops) => L.body.tops[k].elem = U.body.tops[k].elem
        /\ Len(L.body.tops) >= 1

\* The same for two Applies all of whose results the Combine consumes, in
\* the order of the results.
C23_IfElseAssertionsHoldInOrder ==
  (/\ IfElseFiredOnVerifiedGraph
   /\ LET c == prev[last.comb]
      IN  /\ lower(c) = Results(prev, getLowerDefiningOps(c)[1])
          /\ upper(c) = Results(prev, getUpperDefiningOps(c)[1])
          /\ \A k \in 1..Len(lower(c)) : TypeOf(prev, lower(c)[k]).elem = TypeOf(prev, upper(c)[k]).elem)
    => LET c == prev[last.comb]
           L == prev[getLowerDefiningOps(c)[1]]
           U == prev[getUpperDefiningOps(c)[1]]
       IN  ElemTypes(L.body.tops) = ElemTypes(U.body.tops) /\ L.body.tops # <<>>

----------------------------------------------------------------------------
(* The trigger conditions of the rules *)

\* The rule of the last step, InternalIfElse counted as IfElse.
LastRule == IF last.rule = "InternalIfElse" THEN "IfElse" ELSE last.rule

\* C24: at most one of Fuse, Mirror and IfElse is enabled for a Combine.
\* When a rule has fired on a Combine, the two other rules fail on the same
\* Combine of the same graph; Fuse fires only when a side has more than one
\* defining op, Mirror only when each side has one defining op and there is
\* an extra operand, IfElse only when each side has one defining op and
\* there is no extra operand.
C24_OneRulePerCombine ==
  (last.rule \in {"Fuse", "Mirror", "IfElse", "InternalIfElse"} /\ last.res # "failure") =>
    LET c == last.comb
        nl == Len(getLowerDefiningOps(prev[c]))
        nu == Len(getUpperDefiningOps(prev[c]))
        extras == lowerext(prev[c]) \o upperext(prev[c])
    IN  /\ \A r \in {"Fuse", "Mirror", "IfElse"} \ {LastRule} :
             \A o \in Outcomes(r, prev, c) : o.res = "failure" /\ o.g = prev
        /\ LastRule = "Fuse" => (nl > 1 \/ nu > 1)
        /\ LastRule = "Mirror" => (nl = 1 /\ nu = 1 /\ extras # <<>>)
        /\ LastRule = "IfElse" => (nl = 1 /\ nu = 1 /\ extras = <<>>)

\* Mirror fires on a Combine with a lower and an upper extra operand.
C24_Witness ==
  /\ MirrorSucceeded
  /\ lowerext(prev[last.comb]) # <<>>
  /\ upperext(prev[last.comb]) # <<>>

----------------------------------------------------------------------------
(* The shape check of Fuse *)

\* Fuse has selected two Applies that both have a bound pair.
FuseSelectsShapedApplies ==
  /\ last.rule = "Fuse"
  /\ Len(FuseDefiningOps(prev[last.comb])) >= 2
  /\ isApply(prev, FuseDefiningOps(prev[last.comb])[1])
  /\ isApply(prev, FuseDefiningOps(prev[last.comb])[2])
  /\ hasShape(prev[FuseDefiningOps(prev[last.comb])[1]])
  /\ hasShape(prev[FuseDefiningOps(prev[last.comb])[2]])

\* C25: when the two Applies selected by Fuse both have a bound pair and
\* the pairs differ in the lower or in the upper bounds, Fuse emits the
\* warning 'expected shapes to match', returns failure and leaves the graph
\* unchanged; the Apply of a successful Fuse has the bound pair of the first
\* Apply, which is the second Apply's pair when both have one.
C25_FuseShapesMatch ==
  /\ FuseSelectsShapedApplies =>
       LET A == prev[FuseDefiningOps(prev[last.comb])[1]]
           B == prev[FuseDefiningOps(prev[last.comb])[2]]
       IN  /\ (A.lb # B.lb \/ A.ub # B.ub) =>
                /\ last.res = "failure"
                /\ last.warn = "expected shapes to match"
                /\ [sev |-> "warning", op |-> last.comb, msg |-> last.warn] \in diags
                /\ ops = prev
           /\ last.res = "success" => (A.lb = B.lb /\ A.ub = B.ub)
  /\ FuseSucceeded =>
       /\ ops[NextId(prev)].lb = prev[FuseDefiningOps(prev[last.comb])[1]].lb
       /\ ops[NextId(prev)].ub = prev[FuseDefiningOps(prev[last.comb])[1]].ub

\* The same for bound pairs that differ in the lower and in the upper
\* bounds.
C25_FuseShapesDifferInBoth ==
  FuseSelectsShapedApplies =>
    LET A == prev[FuseDefiningOps(prev[last.comb])[1]]
        B == prev[FuseDefiningOps(prev[last.comb])[2]]
    IN  (A.lb # B.lb /\ A.ub # B.ub) =>
          /\ last.res = "failure"
          /\ last.warn = "expected shapes to match"
          /\ ops = prev

----------------------------------------------------------------------------
(* The producers of the two sides *)

\* Mirror or IfElse has gone past its match conditions.
MirrorOrIfElseFired ==
  /\ last.rule \in {"Mirror", "IfElse", "InternalIfElse"}
  /\ last.res # "failure"

\* C26: whenever Mirror or IfElse fires, the producer of the lower side and
\* the producer of the upper side are two different Applies; no sequence of
\* Fuse applications on a graph that passes the single-use scan leads to a
\* Combine with one Apply producing both sides.
C26_SidesHaveDifferentProducers ==
  /\ MirrorOrIfElseFired =>
       LET c == prev[last.comb]
       IN  /\ isApply(prev, getLowerDefiningOps(c)[1])
           /\ isApply(prev, getUpperDefiningOps(c)[1])
           /\ getLowerDefiningOps(c)[1] # getUpperDefiningOps(c)[1]
  /\ FuseSucceeded =>
       \A c \in Combines(ops) :
         (Len(getLowerDefiningOps(ops[c])) = 1 /\ Len(getUpperDefiningOps(ops[c])) = 1)
           => getLowerDefiningOps(ops[c])[1] # getUpperDefiningOps(ops[c])[1]

----------------------------------------------------------------------------
(* The single-use precondition during the pass *)

\* A rule succeeded in the last step.
SomeRuleSucceeded == FuseSucceeded \/ MirrorSucceeded \/ IfElseSucceeded

\* C27: the single-use precondition is an invariant of the graphs of the
\* pass: after each successful Fuse, Mirror or IfElse application every
\* operand of every remaining Combine has exactly one use.
C27_SingleUsePreserved ==
  SomeRuleSucceeded => ~SomeOperandNotSingleUse(ops)

\* IfElse succeeded on an inner Combine: the Apply it created feeds an
\* outer Combine.
C27_Witness ==
  /\ IfElseSucceeded
  /\ \E c \in Combines(ops) : \E k \in 1..Len(ops[c].operands) :
        ops[c].operands[k][1] = NextId(prev)

----------------------------------------------------------------------------
(* Trees of nested Combines *)

\* Combine c of g has an operand that a Combine produces.
FedByCombine(g, c) ==
  \E k \in 1..Len(g[c].operands) :
    g[c].operands[k][1] \in DOMAIN g /\ g[g[c].operands[k][1]].kind = "combine"

\* The function holds a Combine fed by a Combine.
HasNestedCombines(g) == \E c \in Combines(g) : FedByCombine(g, c)

\* The stencil programs with nested Combines.
TreePrograms ==
  {p \in PassFamily : p.cons \in {"combine/store", "combine/apply"} /\ p.stencil /\ ~p.dup}
    \cup TreeFamily

InitTree ==
  \E p \in TreePrograms :
    /\ ops = Build(p)
    /\ prev = Build(p)
    /\ pc = "start"
    /\ failed = FALSE
    /\ diags = {}
    /\ last = NoStep
    /\ isStencilProgram = p.stencil
    /\ internalOnly = p.internal
    /\ call = NoCall

\* Some pattern of the mode matches some Combine.
CanRewrite ==
  /\ pc = "rewrite"
  /\ DeadApplies(ops) = {}
  /\ \E rule \in Patterns(internalOnly) : \E c \in Combines(ops) :
       \E o \in Outcomes(rule, ops, c) : o.res # "failure"

\* The greedy driver is at its fixpoint: the steps Finish can take.
AtFixpoint ==
  /\ pc = "rewrite"
  /\ DeadApplies(ops) = {}
  /\ \A rule \in Patterns(internalOnly) : \A c \in Combines(ops) :
       \A o \in Outcomes(rule, ops, c) : o.res = "failure"

\* A pattern was applied and did not return failure.
Rewritten == pc = "rewrite" /\ (ops' # ops \/ pc' = "crashed")

\* The driver returned.
Returned == pc = "rewrite" /\ pc' = "done"

\* The pass on the trees under the scheduling of the greedy driver: the
\* pass starts and dead operations are erased (weak fairness); the driver
\* goes on applying patterns while one matches, and returns at the
\* fixpoint. The last two are weak fairness of the matching pattern
\* applications and strong fairness of Finish (the driver does not try a
\* pattern again on a Combine on which it returned failure), with the
\* enabling conditions written as the state predicates CanRewrite and
\* AtFixpoint.
FairSpec ==
  /\ InitTree
  /\ [][Next]_vars
  /\ WF_vars(RunOnFunction)
  /\ WF_vars(EraseDeadOp)
  /\ ([]<>(~CanRewrite) \/ []<><<Rewritten>>_vars)
  /\ (<>[](~AtFixpoint) \/ []<><<Returned>>_vars)

\* Mirror or IfElse was tried on a Combine fed by a Combine.
TriedOnOuterCombine ==
  /\ last.rule \in {"Mirror", "IfElse", "InternalIfElse"}
  /\ FedByCombine(prev, last.comb)

\* The safety half of C28: Mirror and IfElse return failure on a Combine
\* fed by a Combine and leave the graph as it was.
C28_OuterCombineWaits ==
  TriedOnOuterCombine => (last.res = "failure" /\ ops = prev)

\* The pass was started in general mode on a stencil program with nested
\* Combines that passes the scan.
TreeToLower ==
  /\ pc = "rewrite"
  /\ ~internalOnly
  /\ HasNestedCombines(ops)

\* The pass is over and the tree is a single Apply.
TreeLowered ==
  /\ pc = "done"
  /\ Combines(ops) = {}

\* C28: in a tree of nested Combines, Mirror and IfElse neither fire on
\* nor change an outer Combine while a Combine still produces one of its
\* sides, and in general mode the whole tree is eventually lowered to a
\* single Apply.
C28_TreeEventuallyLowered ==
  /\ [](TriedOnOuterCombine => (last.res = "failure" /\ ops = prev))
  /\ (TreeToLower ~> TreeLowered)

----------------------------------------------------------------------------
(* The casts of Fuse *)

\* Fuse was tried on a Combine a side of which has more than one defining
\* op.
FuseTriggered ==
  /\ last.rule = "Fuse"
  /\ FuseDefiningOps(prev[last.comb]) # <<>>

\* C29: whenever Fuse is triggered, the first two defining ops of the side
\* it chose (the upper side before the lower side) are Applies, so that
\* its two casts do not fail; this holds in every graph of the pass, also
\* for a Combine one side of which a nested Combine and an Apply feed.
C29_FuseCastsApplies ==
  FuseTriggered =>
    /\ isApply(prev, FuseDefiningOps(prev[last.comb])[1])
    /\ isApply(prev, FuseDefiningOps(prev[last.comb])[2])

\* The same for the Combines that no Combine feeds.
C29_FuseCastsAppliesOfInnerCombine ==
  (FuseTriggered /\ ~FedByCombine(prev, last.comb)) =>
    /\ isApply(prev, FuseDefiningOps(prev[last.comb])[1])
    /\ isApply(prev, FuseDefiningOps(prev[last.comb])[2])

\* Whatever the tree, the pass comes to an end or to a failed cast.
C28_PassEnds ==
  TreeToLower ~> (pc \in {"done", "crashed"})

----------------------------------------------------------------------------
(* The unroll dimension of a verified Return *)

\* ReturnOp::getUnrollDim with the 32 bit unroll factor: the first axis
\* whose entry equals the factor; when there is none the assertion fails
\* in a build with assertions, and std::distance to end() is returned in a
\* build without them.
getUnrollDimOutcomes(unroll) ==
  IF unroll = <<>> THEN {[asserted |-> FALSE, dim |-> 0]}
  ELSE IF \E i \in 1..Len(unroll) : ToDigits(unroll[i]) = unrollFac(unroll)
    THEN {[asserted |-> FALSE,
           dim |-> (CHOOSE i \in 1..Len(unroll) :
                      /\ ToDigits(unroll[i]) = unrollFac(unroll)
                      /\ \A j \in 1..(i - 1) : ToDigits(unroll[j]) # unrollFac(unroll)) - 1]}
  ELSE {[asserted |-> TRUE, dim |-> 0], [asserted |-> FALSE, dim |-> Len(unroll)]}

\* The unroll comparison of Fuse and IfElse asks a verified Return for its
\* unroll dimension.
CompareUnroll ==
  /\ call.fn = "verify"
  /\ call.out = "success"
  /\ \E d \in getUnrollDimOutcomes(call.unroll) :
       call' = [fn |-> "dim", unroll |-> call.unroll, results |-> call.results,
                operands |-> call.operands, out |-> call.out,
                asserted |-> d.asserted, dim |-> d.dim]
  /\ UNCHANGED passVars

NextUnrollDim == VerifyReturn \/ CompareUnroll

SpecUnrollDim == InitReturn /\ [][NextUnrollDim]_vars

\* The axes whose entry is the product of all entries.
FactorAxes(unroll) ==
  {i \in 1..Len(unroll) : ToDigits(unroll[i]) = UnrollProduct(unroll)}

\* C30: for every Return the verifier accepts, getUnrollDim does not fail
\* its assertion: with an unroll attribute some axis entry equals the
\* unroll factor, the product of all entries, and the first such axis is
\* returned; without the attribute 0 is returned. This includes unroll
\* attributes with more than one entry greater than 1.
C30_UnrollDimFound ==
  call.fn = "dim" =>
    /\ ~call.asserted
    /\ call.unroll = <<>> => call.dim = 0
    /\ call.unroll # <<>> =>
         /\ FactorAxes(call.unroll) # {}
         /\ \A i \in FactorAxes(call.unroll) : call.dim + 1 <= i
         /\ call.dim + 1 \in FactorAxes(call.unroll)

\* The same for the unroll attributes with at most one entry other than 1.
C30_UnrollDimFoundOnOneAxis ==
  (call.fn = "dim" /\ Cardinality({i \in 1..Len(call.unroll) : call.unroll[i] # 1}) <= 1) =>
    /\ ~call.asserted
    /\ call.unroll = <<>> => call.dim = 0
    /\ call.unroll # <<>> =>
         /\ FactorAxes(call.unroll) # {}
         /\ \A i \in FactorAxes(call.unroll) : call.dim + 1 <= i
         /\ call.dim + 1 \in FactorAxes(call.unroll)

====
